---- MODULE Spec2Model ----
(***************************************************************************)
(* Model of the quantlab data pipeline: the raw partition tree written by  *)
(* run_ingestion (ingestion.py) and the domain tables built from it by     *)
(* transform_raw_to_final (transform.py).                                  *)
(*                                                                         *)
(* A data frame is [cols, rows]: cols the column names in order, rows a    *)
(* sequence of functions from the column names to string values.  A raw    *)
(* partition is a parquet file: absent, a readable frame, or a file whose  *)
(* write was cut short (no footer, pd.read_parquet raises).                *)
(***************************************************************************)
EXTENDS Integers, Sequences, FiniteSets, TLC

VARIABLES
    cfg,       \* configuration of the run: tickers and the three endpoint lists
    tree,      \* raw partition tree: path -> file content
    pc,        \* position of run_ingestion: idle, running, done, raised, killed
    idx,       \* index in UnitOrder of the unit the running loop is at
    resume,    \* the resume argument of the current run
    runs,      \* number of run_ingestion calls started so far
    df,        \* the row set the last provider call of the run produced
    prev,      \* how the previous run_ingestion call ended (pc when this one started)
    ev,        \* the last step taken: [kind, idx, found]; found is what the files the
               \* resume check of the unit looks at held when the step began
    final,     \* domain-table directory: table name -> file content
    tstatus,   \* outcome of the last transform_raw_to_final call
    wrds,      \* the wrds_*.parquet files of the raw directory: absent or written
    last_call, \* index of the unit of the last provider call of the current run (0: none)
    pauses,    \* number of rate-limit pauses of the run since that call
    failures,  \* the failure worklists of the final directory: CSV name -> content
    rpc,       \* position of refetch_failures: idle, running, done, raised
    ridx,      \* index in the worklist of the record the replay loop is at
    worklist,  \* the CSV refetch_failures read when it started: [name, rows]
    replays,   \* number of refetch_failures calls started so far
    arg,       \* argument of a flattener or filter call made on its own
    ret,       \* what that call returned or raised
    procs      \* two run_ingestion processes on one raw tree: process -> its position

run_vars == <<wrds, last_call, pauses>>

triage_vars == <<failures, rpc, ridx, worklist, replays>>

call_vars == <<arg, ret>>

race_vars == <<procs>>

vars == <<cfg, tree, pc, idx, resume, runs, prev, df, ev, final, tstatus,
          wrds, last_call, pauses, failures, rpc, ridx, worklist, replays, arg, ret, procs>>

(***************************************************************************)
(* Bounds of the model.                                                    *)
(***************************************************************************)
MaxRuns == 2

\* Largest number of rows of a frame handed to _filter_date on its own.
MaxRows == 2

\* Largest number of refetch_failures calls.
MaxReplays == 2

\* Largest number of elements of a list of a payload handed to _json_to_df on its own.
MaxItems == 2

(***************************************************************************)
(* Configuration: ticker list, endpoint lists and the date window.         *)
(***************************************************************************)
\* Lexicographic order of the ticker symbols in use.
TICKER_ORDER == <<"A", "B">>

\* Variant: the override list is iterated as given.
tickers_AsGiven == cfg.tickers

\* sorted(set(tickers_override))
tickers ==
    SelectSeq(TICKER_ORDER, LAMBDA t : \E i \in 1..Len(cfg.tickers) : cfg.tickers[i] = t)

time_series_endpoints == cfg.time_series

full_history_endpoints == cfg.fundamentals

economic_endpoints == cfg.economic_indicators

ECONOMIC_ENDPOINTS_DEFAULT ==
    {"REAL_GDP", "REAL_GDP_PER_CAPITA", "TREASURY_YIELD", "FEDERAL_FUNDS_RATE", "CPI",
     "INFLATION", "RETAIL_SALES", "DURABLES", "UNEMPLOYMENT", "NONFARM_PAYROLL"}

\* One ticker, one endpoint of each kind (periodized and not).
ConfigAll ==
    [tickers |-> <<"A">>,
     time_series |-> <<"TIME_SERIES_DAILY_ADJUSTED">>,
     fundamentals |-> <<"COMPANY_OVERVIEW", "INCOME_STATEMENT">>,
     economic_indicators |-> <<"REAL_GDP">>]

\* Two tickers given out of order and twice, one endpoint of each kind.
ConfigOrder ==
    [tickers |-> <<"B", "A", "B">>,
     time_series |-> <<"TIME_SERIES_DAILY_ADJUSTED">>,
     fundamentals |-> <<"INCOME_STATEMENT">>,
     economic_indicators |-> <<"REAL_GDP">>]

\* REST_FUNCTION_MAP.get(endpoint, endpoint): the provider-call name of an endpoint.
REST_FUNCTION_MAP(endpoint) == IF endpoint = "COMPANY_OVERVIEW" THEN "OVERVIEW" ELSE endpoint

PERIODIZED ==
    {"INCOME_STATEMENT", "BALANCE_SHEET", "CASH_FLOW", "EARNINGS", "EARNINGS_ESTIMATES"}

PERIODS == <<"annual", "quarterly">>

D1 == "2024-01-01"
D2 == "2024-01-02"
D3 == "2025-06-01"
NaT == "NaT"
NaN == "NaN"

date_start == D1
date_end == D2

\* Calendar order of the date strings the provider uses.
DateOrd(d) == CASE d = D1 -> 1 [] d = D2 -> 2 [] d = D3 -> 3 [] OTHER -> 0

(***************************************************************************)
(* Data frames.                                                            *)
(***************************************************************************)
Range(s) == {s[i] : i \in 1..Len(s)}

\* Order in which field names appear in provider maps and CSV headers.
FieldOrder ==
    <<"{", "timestamp", "date", "fiscalDateEnding", "Symbol", "close", "value",
      "totalRevenue", "name", "Information", "symbol", "period_type", "ticker",
      "statement", "indicator", "datetime", "price", "text", "header", "x">>

ColsOf(keys) == SelectSeq(FieldOrder, LAMBDA c : c \in keys)

Frame(cols, rows) == [cols |-> cols, rows |-> rows]

EmptyFrame == Frame(<<>>, <<>>)

\* DataFrame.empty: no rows or no columns.
IsEmpty(d) == Len(d.rows) = 0 \/ Len(d.cols) = 0

HasCol(d, c) == c \in Range(d.cols)

\* df[c] = v : set (or add as the last column) column c to the constant v.
SetCol(d, c, v) ==
    LET cs == IF HasCol(d, c) THEN d.cols ELSE Append(d.cols, c)
    IN Frame(cs, [i \in 1..Len(d.rows) |->
                    [k \in Range(cs) |-> IF k = c THEN v ELSE d.rows[i][k]]])

\* df.drop(columns=[c], errors="ignore")
DropCol(d, c) ==
    LET cs == SelectSeq(d.cols, LAMBDA k : k # c)
    IN Frame(cs, [i \in 1..Len(d.rows) |-> [k \in Range(cs) |-> d.rows[i][k]]])

\* df[mask] : the rows satisfying Keep, in order.
FilterRows(d, Keep(_)) == Frame(d.cols, SelectSeq(d.rows, Keep))

\* pd.concat([a, b], ignore_index=True): union of the columns, NaN where missing.
Concat2(a, b) ==
    LET cs == a.cols \o SelectSeq(b.cols, LAMBDA k : ~HasCol(a, k))
        Pad(r) == [k \in Range(cs) |-> IF k \in DOMAIN r THEN r[k] ELSE NaN]
    IN Frame(cs, [i \in 1..(Len(a.rows) + Len(b.rows)) |->
                    IF i <= Len(a.rows) THEN Pad(a.rows[i])
                    ELSE Pad(b.rows[i - Len(a.rows)])])

RECURSIVE ConcatAll(_)
ConcatAll(frames) ==
    IF Len(frames) = 1 THEN Concat2(frames[1], EmptyFrame)
    ELSE Concat2(frames[1], ConcatAll(Tail(frames)))

\* pd.json_normalize(list of maps): one row per element.
NormalizeList(items) ==
    IF Len(items) = 0 THEN EmptyFrame
    ELSE LET keys == UNION {DOMAIN items[i] : i \in 1..Len(items)}
             cs == ColsOf(keys)
         IN Frame(cs, [i \in 1..Len(items) |->
                         [k \in Range(cs) |->
                            IF k \in DOMAIN items[i] THEN items[i][k] ELSE NaN]])

(***************************************************************************)
(* Provider payloads.  A JSON payload is the sequence of its entries in    *)
(* key order; an entry holds a list of maps (isList) or a scalar text.     *)
(***************************************************************************)
ListEntry(key, items) == [key |-> key, isList |-> TRUE, items |-> items, text |-> ""]

TextEntry(key, text) == [key |-> key, isList |-> FALSE, items |-> <<>>, text |-> text]

HasKey(payload, key) == \E i \in 1..Len(payload) : payload[i].key = key

Get(payload, key) == payload[CHOOSE i \in 1..Len(payload) : payload[i].key = key]

\* payload.get(key) is truthy: a non-empty list or a non-empty text.
Truthy(payload, key) ==
    /\ HasKey(payload, key)
    /\ IF Get(payload, key).isList THEN Len(Get(payload, key).items) > 0
       ELSE Get(payload, key).text # ""

ERROR_TEXT == "Invalid API call. Please retry or visit the documentation"

\* Payloads fetch_json may return for an endpoint.
JsonPayloads(endpoint, symbol) ==
    IF endpoint \in PERIODIZED THEN
        { <<TextEntry("symbol", symbol),
            ListEntry("annualReports", <<[fiscalDateEnding |-> D1, totalRevenue |-> "100"]>>),
            ListEntry("quarterlyReports", <<[fiscalDateEnding |-> D2, totalRevenue |-> "25"]>>)>>,
          <<TextEntry("symbol", symbol),
            ListEntry("annualReports", <<[fiscalDateEnding |-> D1, totalRevenue |-> "100"]>>),
            ListEntry("quarterlyReports", <<>>)>>,
          <<TextEntry("Information", ERROR_TEXT)>> }
    ELSE IF endpoint \in ECONOMIC_ENDPOINTS_DEFAULT THEN
        { <<TextEntry("name", endpoint),
            ListEntry("data", <<[date |-> D1, value |-> "1.5"], [date |-> D3, value |-> "2.5"]>>)>>,
          <<TextEntry("name", endpoint), ListEntry("data", <<>>)>>,
          <<TextEntry("Information", ERROR_TEXT)>> }
    ELSE
        { <<TextEntry("Symbol", symbol)>>,
          <<TextEntry("Information", ERROR_TEXT)>>,
          <<>> }

\* Frames fetch_time_series_csv may return: the parsed CSV plus the symbol column.
CsvFrames(symbol) ==
    { SetCol(Frame(<<"timestamp", "close">>, rows), "symbol", symbol) : rows \in
        { <<>>,
          <<[timestamp |-> D2, close |-> "11"], [timestamp |-> D1, close |-> "10"]>>,
          <<[timestamp |-> D2, close |-> "11"], [timestamp |-> D2, close |-> "12"]>> } }

(***************************************************************************)
(* Flattening and the result-date filter.                                  *)
(***************************************************************************)
\* Variant: the quarterly frame is put before the annual one.
PeriodFrames_QuarterlyFirst(payload, akey, qkey) ==
    (IF Truthy(payload, qkey)
        THEN <<SetCol(NormalizeList(Get(payload, qkey).items), "period_type", "quarterly")>>
        ELSE <<>>)
    \o
    (IF Truthy(payload, akey)
        THEN <<SetCol(NormalizeList(Get(payload, akey).items), "period_type", "annual")>>
        ELSE <<>>)

\* The frames of one labeled annual/quarterly pair, annual first.
PeriodFrames(payload, akey, qkey) ==
    (IF Truthy(payload, akey)
        THEN <<SetCol(NormalizeList(Get(payload, akey).items), "period_type", "annual")>>
        ELSE <<>>)
    \o
    (IF Truthy(payload, qkey)
        THEN <<SetCol(NormalizeList(Get(payload, qkey).items), "period_type", "quarterly")>>
        ELSE <<>>)

PairPresent(payload, akey, qkey) ==
    (HasKey(payload, akey) \/ HasKey(payload, qkey))
    /\ Len(PeriodFrames(payload, akey, qkey)) > 0

\* pd.json_normalize(map): one row, one column per scalar key.
NormalizeMap(payload) ==
    LET keys == {payload[i].key : i \in 1..Len(payload)}
        cs == ColsOf(keys)
    IN Frame(cs, <<[k \in Range(cs) |-> Get(payload, k).text]>>)

COMMON_LIST_FIELDS == <<"annualReports", "quarterlyReports", "bestMatches", "data">>

_json_to_df(payload) ==
    LET IsListKey(k) == HasKey(payload, k) /\ Get(payload, k).isList
        common == SelectSeq(COMMON_LIST_FIELDS, IsListKey)
        lists == SelectSeq(payload, LAMBDA e : e.isList)
    IN IF PairPresent(payload, "annualReports", "quarterlyReports")
           THEN ConcatAll(PeriodFrames(payload, "annualReports", "quarterlyReports"))
       ELSE IF PairPresent(payload, "annualEarnings", "quarterlyEarnings")
           THEN ConcatAll(PeriodFrames(payload, "annualEarnings", "quarterlyEarnings"))
       ELSE IF PairPresent(payload, "annualEarningsEstimates", "quarterlyEarningsEstimates")
           THEN ConcatAll(PeriodFrames(payload, "annualEarningsEstimates",
                                       "quarterlyEarningsEstimates"))
       ELSE IF Len(common) > 0 THEN NormalizeList(Get(payload, common[1]).items)
       ELSE IF Len(lists) > 0 THEN NormalizeList(lists[1].items)
       ELSE NormalizeMap(payload)

DT2 == "2024-01-02 16:00:00"

\* pd.to_datetime(x).dt.date on the values the provider sends.
ToDate(x) == IF x = DT2 THEN D2 ELSE x

DATE_COLUMNS == <<"date", "timestamp", "datetime">>

\* Variant: an empty filter result is returned as it is.
_filter_date_NoFallback(d, start, end) ==
    LET present == SelectSeq(DATE_COLUMNS, LAMBDA c : HasCol(d, c))
    IN IF Len(present) = 0 THEN d
       ELSE LET col == present[1]
                conv == Frame(d.cols, [i \in 1..Len(d.rows) |->
                            [k \in Range(d.cols) |->
                               IF k = col THEN ToDate(d.rows[i][k]) ELSE d.rows[i][k]]])
            IN FilterRows(conv, LAMBDA r :
                             DateOrd(r[col]) >= DateOrd(start)
                             /\ DateOrd(r[col]) <= DateOrd(end))

_filter_date(d, start, end) ==
    LET present == SelectSeq(DATE_COLUMNS, LAMBDA c : HasCol(d, c))
    IN IF Len(present) = 0 THEN d
       ELSE LET col == present[1]
                conv == Frame(d.cols, [i \in 1..Len(d.rows) |->
                            [k \in Range(d.cols) |->
                               IF k = col THEN ToDate(d.rows[i][k]) ELSE d.rows[i][k]]])
                filtered == FilterRows(conv, LAMBDA r :
                               DateOrd(r[col]) >= DateOrd(start)
                               /\ DateOrd(r[col]) <= DateOrd(end))
            IN IF ~IsEmpty(filtered) THEN filtered ELSE conv

(***************************************************************************)
(* The MCP content flattener.  A payload is [type, text, entries]: a        *)
(* scalar with its text; a map or a list with its entries in order; a       *)
(* string, given by its syntax (text) and by the value it denotes           *)
(* (entries[1].val): "json" is JSON that is also a Python literal,          *)
(* "literal" a Python literal with single quotes, "csv" a CSV table,        *)
(* "plain" a bare word, "empty" the empty string.                           *)
(***************************************************************************)
Entry(key, val) == [key |-> key, val |-> val]

Scalar(v) == [type |-> "scalar", text |-> v, entries |-> <<>>]

Dict(entries) == [type |-> "dict", text |-> "", entries |-> entries]

List(items) ==
    [type |-> "list", text |-> "", entries |-> [i \in 1..Len(items) |-> Entry("", items[i])]]

Str(syntax, value) == [type |-> "str", text |-> syntax, entries |-> <<Entry("", value)>>]

DHas(c, key) == \E i \in 1..Len(c.entries) : c.entries[i].key = key

DGet(c, key) == c.entries[CHOOSE i \in 1..Len(c.entries) : c.entries[i].key = key].val

\* json.loads(text) succeeds; otherwise it raises JSONDecodeError for a string
\* and TypeError for anything else.
JsonLoads(c) == c.type = "str" /\ c.text = "json"

\* ast.literal_eval(text) succeeds.
LiteralEval(c) == c.type = "str" /\ c.text \in {"json", "literal"}

Denoted(c) == c.entries[1].val

\* Keys "<n>. <name>" lose their numeric prefix.
_strip_prefix(col) ==
    CASE col = "4. close" -> "close"
      [] col = "01. symbol" -> "symbol"
      [] col = "05. price" -> "price"
      [] OTHER -> col

\* The row of a map of scalars.
FlatRow(c, Name(_)) ==
    [k \in {Name(c.entries[i].key) : i \in 1..Len(c.entries)} |->
        c.entries[CHOOSE i \in 1..Len(c.entries) : Name(c.entries[i].key) = k].val.text]

\* pd.json_normalize of a map of scalars: one row; of a list of such maps: a
\* row each.
NormalizeContent(c) ==
    IF c.type = "dict"
      THEN LET row == FlatRow(c, LAMBDA k : k)
           IN Frame(ColsOf(DOMAIN row), <<row>>)
      ELSE NormalizeList([i \in 1..Len(c.entries) |->
                            FlatRow(c.entries[i].val, LAMBDA k : k)])

\* pd.DataFrame({"text": [txt]})
TextFallback(txt) == Frame(<<"text">>, <<[k \in {"text"} |-> txt]>>)

Raised == [raised |-> TRUE, frame |-> EmptyFrame]

Returned(f) == [raised |-> FALSE, frame |-> f]

\* pd.read_csv(StringIO(text)): the table of a CSV text, a header without rows
\* for any other one-line text; raises for the empty string and for a
\* non-string.
ReadCsv(c) ==
    IF c.type # "str" \/ c.text = "empty" THEN Raised
    ELSE IF c.text = "csv" THEN Returned(NormalizeContent(Denoted(c)))
    ELSE Returned(Frame(<<"header">>, <<>>))

\* symbol = meta.get(...); for dt_str, vals in payload.items(): pd.to_datetime(dt_str),
\* vals.items().  Raises when meta or payload is not a map, a key is not a
\* date, or a value is not a map.
_parse_time_series(payload, meta) ==
    IF meta.type # "dict" \/ payload.type # "dict" THEN Raised
    ELSE IF \E i \in 1..Len(payload.entries) :
                \/ DateOrd(ToDate(payload.entries[i].key)) = 0
                \/ payload.entries[i].val.type # "dict"
         THEN Raised
    ELSE LET symbol == IF DHas(meta, "2. Symbol") THEN DGet(meta, "2. Symbol").text
                       ELSE IF DHas(meta, "1. Symbol") THEN DGet(meta, "1. Symbol").text
                       ELSE ""
             Rec(e) ==
                 LET fields == FlatRow(e.val, _strip_prefix)
                     keys == {"date"} \cup DOMAIN fields
                              \cup (IF symbol # "" THEN {"symbol"} ELSE {})
                 IN [k \in keys |-> IF k = "symbol" /\ symbol # "" THEN symbol
                                    ELSE IF k = "date" THEN ToDate(e.key)
                                    ELSE fields[k]]
         IN Returned(NormalizeList([i \in 1..Len(payload.entries) |-> Rec(payload.entries[i])]))

\* rec = {_strip_prefix(k): v for k, v in payload.items()}: raises unless a map.
_parse_global_quote(payload) ==
    IF payload.type # "dict" THEN Raised
    ELSE LET row == FlatRow(payload, _strip_prefix)
         IN Returned(Frame(ColsOf(DOMAIN row), <<row>>))

SERIES_KEYS == {"Time Series (Daily)", "Technical Analysis: SMA"}

\* next((k for k in content.keys() if "Time Series" in k), None), then the same
\* for "Technical Analysis": the series key of a map, "" if none.
SeriesKey(c) ==
    IF DHas(c, "Time Series (Daily)") THEN "Time Series (Daily)"
    ELSE IF DHas(c, "Technical Analysis: SMA") THEN "Technical Analysis: SMA"
    ELSE ""

RECURSIVE _content_to_df(_)
\* json.loads, then ast.literal_eval, then pd.read_csv, then the text fallback.
\* Only JSONDecodeError is caught around the first attempt.
_try_parse_text(text) ==
    IF text.type # "str" THEN Raised
    ELSE IF JsonLoads(text) THEN _content_to_df(Denoted(text))
    ELSE IF LiteralEval(text) /\ ~_content_to_df(Denoted(text)).raised
         THEN _content_to_df(Denoted(text))
    ELSE IF ~ReadCsv(text).raised THEN ReadCsv(text)
    ELSE Returned(TextFallback(text))

\* A frame that is a single text cell gets one more literal_eval pass.
_maybe_reparse_text_df(d) ==
    IF d.cols = <<"text">> /\ Len(d.rows) = 1
       /\ LiteralEval(d.rows[1]["text"])
       /\ ~_content_to_df(Denoted(d.rows[1]["text"])).raised
      THEN _content_to_df(Denoted(d.rows[1]["text"])).frame
      ELSE d

\* The result of _content_to_df: [raised, frame].
_content_to_df(content) ==
    IF content.type = "list" THEN
        IF Len(content.entries) > 0 /\ content.entries[1].val.type = "dict"
           /\ DHas(content.entries[1].val, "text")
        THEN LET txt == DGet(content.entries[1].val, "text")
             IN IF LiteralEval(txt) /\ ~_content_to_df(Denoted(txt)).raised
                  THEN _content_to_df(Denoted(txt))
                ELSE IF _try_parse_text(txt).raised THEN Raised
                ELSE IF ~IsEmpty(_try_parse_text(txt).frame)
                  THEN Returned(_maybe_reparse_text_df(
                                    Concat2(_try_parse_text(txt).frame, EmptyFrame)))
                ELSE Returned(_maybe_reparse_text_df(TextFallback(txt)))
        ELSE Returned(NormalizeContent(content))
    ELSE IF content.type = "dict" THEN
        IF /\ DHas(content, "preview") /\ DGet(content, "preview").text = "true"
           /\ DHas(content, "data_type") /\ DGet(content, "data_type").text = "csv"
           /\ DHas(content, "sample_data")
        THEN LET csv_text == DGet(content, "sample_data")
             IN IF ReadCsv(csv_text).raised THEN Returned(TextFallback(csv_text))
                ELSE IF DHas(content, "symbol")
                  THEN Returned(SetCol(ReadCsv(csv_text).frame, "symbol",
                                       DGet(content, "symbol").text))
                ELSE ReadCsv(csv_text)
        ELSE IF SeriesKey(content) # ""
          THEN _parse_time_series(DGet(content, SeriesKey(content)),
                                  IF DHas(content, "Meta Data") THEN DGet(content, "Meta Data")
                                  ELSE Dict(<<>>))
        ELSE IF DHas(content, "Global Quote")
          THEN _parse_global_quote(DGet(content, "Global Quote"))
        ELSE Returned(NormalizeContent(content))
    ELSE IF content.type = "str" THEN _try_parse_text(content)
    ELSE Returned(Frame(<<"value">>, <<[k \in {"value"} |-> content.text]>>))

(***************************************************************************)
(* failure_utils: the scan for provider error text.                        *)
(***************************************************************************)
\* Variant: the cell text is compared as stored, capitals kept.
Lower_AsIs(x) == x

\* str.lower() of a cell text, as case=False compares it.  The provider's error
\* text is the only text in use whose capitals matter to the scan.
Lower(x) ==
    IF x = ERROR_TEXT THEN "invalid api call. please retry or visit the documentation"
    ELSE x

\* The texts in use that contain the substring "invalid api call" as written.
WITH_INVALID_API_CALL ==
    {"invalid api call. please retry or visit the documentation", "invalid api call"}

\* col.str.contains("invalid api call", case=False, na=False) for one cell.
str_contains(x) == Lower(x) \in WITH_INVALID_API_CALL

\* df.astype(str).apply(...).any(axis=1): the rows with a matching cell.
InvalidRows(d) == FilterRows(d, LAMBDA r : \E c \in Range(d.cols) : str_contains(r[c]))

\* df.astype(str).apply(...).any().any(): some cell of the frame matches.
HasInvalidCall(d) ==
    \E i \in 1..Len(d.rows) : \E c \in Range(d.cols) : str_contains(d.rows[i][c])

(***************************************************************************)
(* The raw partition tree.  A path is <<endpoint, ticker>> for             *)
(* <endpoint>/<ticker>.parquet and <<endpoint, period, ticker>> for        *)
(* <endpoint>/<period>/<ticker>.parquet, under the raw data directory.     *)
(***************************************************************************)
RAW_DIR_NAME == "data-raw"

GLOBAL == "global"

SinglePath(endpoint, ticker) == <<endpoint, ticker>>

PeriodPath(endpoint, period, ticker) == <<endpoint, period, ticker>>

Paths ==
    {SinglePath(e, t) : e \in Range(time_series_endpoints) \cup Range(full_history_endpoints),
                        t \in Range(tickers)}
    \cup {PeriodPath(e, p, t) : e \in Range(full_history_endpoints), p \in Range(PERIODS),
                                t \in Range(tickers)}
    \cup {SinglePath(e, GLOBAL) : e \in Range(economic_endpoints)}
    \cup {SinglePath(REST_FUNCTION_MAP(e), t) : e \in Range(full_history_endpoints),
                                               t \in Range(tickers)}

Absent == [st |-> "absent", cols |-> <<>>, rows |-> <<>>]

\* A file whose write was cut short: present, but pd.read_parquet raises.
Corrupt == [st |-> "corrupt", cols |-> <<>>, rows |-> <<>>]

\* df.to_parquet(path, index=False): the file holds the frame, nothing else.  A
\* frame without columns is stored as a table without rows.
ToParquet(d) ==
    [st |-> "file", cols |-> d.cols, rows |-> IF Len(d.cols) = 0 THEN <<>> ELSE d.rows]

Exists(t, path) == path \in DOMAIN t /\ t[path].st # "absent"

Readable(t, path) == Exists(t, path) /\ t[path].st = "file"

\* pd.read_parquet(path) of a readable file.
ReadParquet(t, path) == Frame(t[path].cols, t[path].rows)

\* Variant: a file that is present is not written again.
_write_parquet_KeepExisting(t, d, path) ==
    IF Exists(t, path) THEN t ELSE [t EXCEPT ![path] = ToParquet(d)]

\* Variant: a row set holding the provider's error text is not stored.
_write_parquet_SkipErrors(t, d, path) ==
    IF HasInvalidCall(d) THEN t ELSE [t EXCEPT ![path] = ToParquet(d)]

\* Variant: the rows are appended to what the file already holds.
_write_parquet_Append(t, d, path) ==
    [t EXCEPT ![path] =
        IF t[path].st = "file" /\ t[path].cols = d.cols
          THEN [st |-> "file", cols |-> d.cols, rows |-> t[path].rows \o d.rows]
          ELSE ToParquet(d)]

_write_parquet(t, d, path) == [t EXCEPT ![path] = ToParquet(d)]

\* Variant: only the annual partition is looked at.
_all_period_files_exist_AnnualOnly(t, endpoint, ticker) ==
    /\ Readable(t, PeriodPath(endpoint, "annual", ticker))
    /\ ~IsEmpty(ReadParquet(t, PeriodPath(endpoint, "annual", ticker)))

\* Variant: presence of the two files is enough, their content is not read.
_all_period_files_exist_PresenceOnly(t, endpoint, ticker) ==
    /\ Exists(t, PeriodPath(endpoint, "annual", ticker))
    /\ Exists(t, PeriodPath(endpoint, "quarterly", ticker))

_all_period_files_exist(t, endpoint, ticker) ==
    LET annual_path == PeriodPath(endpoint, "annual", ticker)
        quarterly_path == PeriodPath(endpoint, "quarterly", ticker)
    IN IF ~(Exists(t, annual_path) /\ Exists(t, quarterly_path)) THEN FALSE
       ELSE IF ~(Readable(t, annual_path) /\ Readable(t, quarterly_path)) THEN FALSE
       ELSE ~IsEmpty(ReadParquet(t, annual_path))
            /\ ~IsEmpty(ReadParquet(t, quarterly_path))

\* Variant: the discriminator column is kept in the stored rows.
SplitWrites_KeepColumn(d, endpoint, ticker) ==
    IF ~HasCol(d, "period_type") THEN <<[path |-> SinglePath(endpoint, ticker), frame |-> d]>>
    ELSE LET Sub(period) == FilterRows(d, LAMBDA r : r["period_type"] = period)
             kept == SelectSeq(PERIODS, LAMBDA period : ~IsEmpty(Sub(period)))
         IN [i \in 1..Len(kept) |->
               [path |-> PeriodPath(endpoint, kept[i], ticker), frame |-> Sub(kept[i])]]

\* The file writes _write_split_by_period performs, in order: <<path, frame>>.
SplitWrites(d, endpoint, ticker) ==
    IF ~HasCol(d, "period_type") THEN <<[path |-> SinglePath(endpoint, ticker), frame |-> d]>>
    ELSE LET Sub(period) ==
                 DropCol(FilterRows(d, LAMBDA r : r["period_type"] = period), "period_type")
             kept == SelectSeq(PERIODS, LAMBDA period : ~IsEmpty(Sub(period)))
         IN [i \in 1..Len(kept) |->
               [path |-> PeriodPath(endpoint, kept[i], ticker), frame |-> Sub(kept[i])]]

\* The tree after the first n writes of a sequence of writes.
RECURSIVE ApplyWrites(_, _, _)
ApplyWrites(t, writes, n) ==
    IF n = 0 THEN t
    ELSE _write_parquet(ApplyWrites(t, writes, n - 1), writes[n].frame, writes[n].path)

_write_split_by_period(t, d, endpoint, ticker) ==
    ApplyWrites(t, SplitWrites(d, endpoint, ticker), Len(SplitWrites(d, endpoint, ticker)))

\* The tree when the process dies inside write number k: the file is cut short.
CutShort(t, writes, k) == [ApplyWrites(t, writes, k - 1) EXCEPT ![writes[k].path] = Corrupt]

(***************************************************************************)
(* run_ingestion: the units in iteration order.                            *)
(***************************************************************************)
PerTicker == Len(time_series_endpoints) + Len(full_history_endpoints)

NumUnits == Len(tickers) * PerTicker + Len(economic_endpoints)

UnitAt(i) ==
    IF i <= Len(tickers) * PerTicker THEN
        LET t == tickers[((i - 1) \div PerTicker) + 1]
            j == ((i - 1) % PerTicker) + 1
        IN IF j <= Len(time_series_endpoints)
             THEN [kind |-> "time_series", endpoint |-> time_series_endpoints[j], ticker |-> t]
             ELSE [kind |-> "full_history",
                   endpoint |-> full_history_endpoints[j - Len(time_series_endpoints)],
                   ticker |-> t]
    ELSE [kind |-> "economic",
          endpoint |-> economic_endpoints[i - Len(tickers) * PerTicker],
          ticker |-> GLOBAL]

out_path(u) == SinglePath(u.endpoint, u.ticker)

periodized(u) == u.kind = "full_history" /\ u.endpoint \in PERIODIZED

\* Variant: a file that is present counts as fetched, whatever it holds.
ExistingNonEmpty_PresenceOnly(t, path) == Exists(t, path)

\* try: existing = pd.read_parquet(out_path); not existing.empty  except: pass
ExistingNonEmpty(t, path) ==
    Exists(t, path) /\ Readable(t, path) /\ ~IsEmpty(ReadParquet(t, path))

\* The resume check of a unit: TRUE when the unit is skipped.
ResumeSkips(t, res, u) ==
    IF u.kind = "full_history" THEN
        /\ res
        /\ \/ periodized(u) /\ _all_period_files_exist(t, u.endpoint, u.ticker)
           \/ ~periodized(u) /\ ExistingNonEmpty(t, out_path(u))
    ELSE res /\ ExistingNonEmpty(t, out_path(u))

\* The endpoints of the fundamentals loop that are called with the ticker as symbol.
SYMBOL_ENDPOINTS ==
    {"COMPANY_OVERVIEW", "INCOME_STATEMENT", "BALANCE_SHEET", "CASH_FLOW", "EARNINGS",
     "EARNINGS_ESTIMATES", "DIVIDENDS", "SPLITS", "ETF_PROFILE"}

\* The request run_ingestion issues for a unit: client method, provider function
\* name and parameters.
RunRequest(u) ==
    IF u.kind = "time_series" THEN
        [client |-> "fetch_time_series_csv", function |-> u.endpoint,
         params |-> {<<"symbol", u.ticker>>, <<"outputsize", "full">>}]
    ELSE IF u.kind = "full_history" THEN
        [client |-> "fetch_json", function |-> REST_FUNCTION_MAP(u.endpoint),
         params |-> IF u.endpoint \in SYMBOL_ENDPOINTS THEN {<<"symbol", u.ticker>>}
                    ELSE IF u.endpoint = "SYMBOL_SEARCH" THEN {<<"keywords", u.ticker>>}
                    ELSE {}]
    ELSE [client |-> "fetch_json", function |-> REST_FUNCTION_MAP(u.endpoint), params |-> {}]

\* The row sets the provider call of a unit can produce, flattened and filtered.
Fetched(u) ==
    IF u.kind = "time_series"
      THEN {_filter_date(c, date_start, date_end) : c \in CsvFrames(u.ticker)}
      ELSE {_filter_date(_json_to_df(p), date_start, date_end) :
               p \in JsonPayloads(u.endpoint, u.ticker)}

\* The file writes of a unit for the row set d.
UnitWrites(u, d) ==
    IF u.kind = "full_history" THEN SplitWrites(d, u.endpoint, u.ticker)
    ELSE <<[path |-> out_path(u), frame |-> d]>>

(***************************************************************************)
(* transform_raw_to_final: price normalization.                            *)
(***************************************************************************)
\* df.rename(columns={old: new})
RenameCol(d, old, new) ==
    IF ~HasCol(d, old) THEN d
    ELSE LET cs == [i \in 1..Len(d.cols) |-> IF d.cols[i] = old THEN new ELSE d.cols[i]]
         IN Frame(cs, [i \in 1..Len(d.rows) |->
                         [k \in Range(cs) |-> IF k = new THEN d.rows[i][old]
                                              ELSE d.rows[i][k]]])

\* df[keep] : the columns of keep, in that order.
SelectCols(d, keep) ==
    Frame(keep, [i \in 1..Len(d.rows) |-> [k \in Range(keep) |-> d.rows[i][k]]])

\* Columns of the wide form "<Series Label>.<date>.<index>. <field>", parsed by the
\* pattern of _unpivot_alpha_vantage_timeseries: date and price field ("" if unknown).
WIDE_COLUMNS ==
    [c \in {"Time Series (Daily).2024-01-01.4. close",
            "Time Series (Daily).2024-01-02.4. close",
            "Time Series (Daily).2024-01-02.9. information"} |->
        CASE c = "Time Series (Daily).2024-01-01.4. close" -> [date |-> D1, field |-> "close"]
          [] c = "Time Series (Daily).2024-01-02.4. close" -> [date |-> D2, field |-> "close"]
          [] OTHER -> [date |-> D2, field |-> ""]]

\* The wide columns of a frame that carry a known price field.
WidePriceCols(d) ==
    SelectSeq(d.cols, LAMBDA c : c \in DOMAIN WIDE_COLUMNS /\ WIDE_COLUMNS[c].field # "")

\* _unpivot_alpha_vantage_timeseries returns a frame (not None).
IsWide(d) == ~IsEmpty(d) /\ Len(WidePriceCols(d)) > 0

RECURSIVE Dedup(_)
Dedup(s) ==
    IF Len(s) = 0 THEN <<>>
    ELSE LET rest == Dedup(SubSeq(s, 1, Len(s) - 1))
         IN IF s[Len(s)] \in Range(rest) THEN rest ELSE Append(rest, s[Len(s)])

_unpivot_alpha_vantage_timeseries(d, ticker) ==
    LET wide == WidePriceCols(d)
        dates == Dedup([i \in 1..Len(wide) |-> WIDE_COLUMNS[wide[i]].date])
        fields == Dedup([i \in 1..Len(wide) |-> WIDE_COLUMNS[wide[i]].field])
        cs == fields \o <<"date", "ticker">>
        Cell(date, k) ==
            IF k = "date" THEN date
            ELSE IF k = "ticker" THEN ticker
            ELSE IF \E c \in Range(wide) : WIDE_COLUMNS[c] = [date |-> date, field |-> k]
                 THEN d.rows[1][CHOOSE c \in Range(wide) :
                                   WIDE_COLUMNS[c] = [date |-> date, field |-> k]]
                 ELSE NaN
    IN Frame(cs, [i \in 1..Len(dates) |-> [k \in Range(cs) |-> Cell(dates[i], k)]])

INFER_DATE_COLUMNS == <<"date", "Date", "timestamp", "datetime">>

_PRICE_COLS ==
    <<"date", "open", "high", "low", "close", "adjusted_close", "volume",
      "dividend_amount", "split_coefficient">>

\* pd.to_datetime(x, errors="coerce", format="ISO8601").dt.date
CoerceDate(x) == IF DateOrd(ToDate(x)) > 0 THEN ToDate(x) ELSE NaT

\* pd.to_numeric(x, errors="coerce")
CoerceNumeric(x) == IF x \in {"10", "11", "12", "1.5", "2.5", "100", "25"} THEN x ELSE NaN

\* Apply Conv to the cells of the columns in cs.
MapCols(d, cs, Conv(_)) ==
    Frame(d.cols, [i \in 1..Len(d.rows) |->
                     [k \in Range(d.cols) |-> IF k \in cs THEN Conv(d.rows[i][k])
                                              ELSE d.rows[i][k]]])

_normalize_price(d, ticker) ==
    LET present == SelectSeq(INFER_DATE_COLUMNS, LAMBDA c : HasCol(d, c))
        d1 == IF IsWide(d) THEN _unpivot_alpha_vantage_timeseries(d, ticker)
              ELSE LET r == IF Len(present) > 0 THEN RenameCol(d, present[1], "date") ELSE d
                   IN IF HasCol(r, "date") THEN r ELSE RenameCol(r, r.cols[1], "date")
        d2 == RenameCol(RenameCol(RenameCol(d1, "adjusted close", "adjusted_close"),
                                  "dividend amount", "dividend_amount"),
                        "split coefficient", "split_coefficient")
        d3 == SetCol(d2, "ticker", ticker)
        d4 == MapCols(d3, {"date"}, CoerceDate)
        d5 == MapCols(d4, Range(_PRICE_COLS) \ {"date"}, CoerceNumeric)
        keep == SelectSeq(_PRICE_COLS \o <<"ticker">>, LAMBDA c : HasCol(d5, c))
    IN SelectCols(d5, keep)

(***************************************************************************)
(* transform_raw_to_final: the walk over the raw tree and the tables.      *)
(***************************************************************************)
Stem(path) == path[Len(path)]

ParentName(path) == path[Len(path) - 1]

GrandParentName(path) == IF Len(path) >= 3 THEN path[Len(path) - 2] ELSE RAW_DIR_NAME

RECURSIVE SetToSeq(_)
SetToSeq(S) ==
    IF S = {} THEN <<>>
    ELSE LET x == CHOOSE y \in S : TRUE IN <<x>> \o SetToSeq(S \ {x})

\* raw_dir.rglob("*.parquet"): the files of the tree, in one fixed order.
RGlob(t) == SetToSeq({p \in DOMAIN t : Exists(t, p)})

FUNDAMENTALS_ENDPOINTS ==
    {"INCOME_STATEMENT", "BALANCE_SHEET", "CASH_FLOW", "EARNINGS", "EARNINGS_ESTIMATES",
     "DIVIDENDS", "SPLITS"}

\* f"fundamentals_{statement.lower()}"
FundamentalsTable(statement) ==
    CASE statement = "INCOME_STATEMENT" -> "fundamentals_income_statement"
      [] statement = "BALANCE_SHEET" -> "fundamentals_balance_sheet"
      [] statement = "CASH_FLOW" -> "fundamentals_cash_flow"
      [] statement = "EARNINGS" -> "fundamentals_earnings"
      [] statement = "EARNINGS_ESTIMATES" -> "fundamentals_earnings_estimates"
      [] statement = "DIVIDENDS" -> "fundamentals_dividends"
      [] statement = "SPLITS" -> "fundamentals_splits"

TableNames ==
    {"price_daily", "price_weekly", "economic_indicators", "company_overview"}
    \cup {FundamentalsTable(s) : s \in FUNDAMENTALS_ENDPOINTS}

\* The statement a partition is filed under in fundamentals_map.
StatementOf(path) ==
    IF GrandParentName(path) \in FUNDAMENTALS_ENDPOINTS THEN GrandParentName(path)
    ELSE ParentName(path)

\* The frame a fundamentals partition contributes: ticker, statement, period_type.
FundamentalsPart(t, path) ==
    LET tagged == SetCol(SetCol(ReadParquet(t, path), "ticker", Stem(path)),
                         "statement", StatementOf(path))
        period_type ==
            IF GrandParentName(path) \in {"annual", "quarterly"} THEN GrandParentName(path)
            ELSE IF ParentName(path) \in {"annual", "quarterly"} THEN ParentName(path)
            ELSE ""
    IN IF period_type # "" THEN SetCol(tagged, "period_type", period_type) ELSE tagged

\* The partitions the loop dispatches to a bucket: read, not empty, parent chosen.
Dispatched(t, files, Pick(_)) ==
    SelectSeq(files, LAMBDA p : ~IsEmpty(ReadParquet(t, p)) /\ Pick(p))

\* Columns of a frame none of whose cells is set.
AllMissing(d, c) == \A i \in 1..Len(d.rows) : d.rows[i][c] \in {NaN, NaT}

RECURSIVE DropCols(_, _)
DropCols(d, cs) ==
    IF Len(cs) = 0 THEN d ELSE DropCols(DropCol(d, cs[1]), Tail(cs))

\* The frames of each bucket after the loop over the partitions.
Bucket(t, files, name) ==
    LET Parts(Pick(_), Make(_)) ==
            LET ps == Dispatched(t, files, Pick) IN [i \in 1..Len(ps) |-> Make(ps[i])]
    IN CASE name = "price_daily" ->
              Parts(LAMBDA p : ParentName(p) = "TIME_SERIES_DAILY_ADJUSTED",
                    LAMBDA p : _normalize_price(ReadParquet(t, p), Stem(p)))
         [] name = "price_weekly" ->
              Parts(LAMBDA p : ParentName(p) = "TIME_SERIES_WEEKLY_ADJUSTED",
                    LAMBDA p : _normalize_price(ReadParquet(t, p), Stem(p)))
         [] name = "economic_indicators" ->
              Parts(LAMBDA p : ParentName(p) \in ECONOMIC_ENDPOINTS_DEFAULT,
                    LAMBDA p : SetCol(ReadParquet(t, p), "indicator", ParentName(p)))
         [] name = "company_overview" ->
              Parts(LAMBDA p : ParentName(p) = "COMPANY_OVERVIEW",
                    LAMBDA p : SetCol(ReadParquet(t, p), "ticker", Stem(p)))
         [] OTHER ->
              Parts(LAMBDA p : ParentName(p) \in FUNDAMENTALS_ENDPOINTS
                               /\ FundamentalsTable(StatementOf(p)) = name,
                    LAMBDA p : FundamentalsPart(t, p))

\* The table written for a bucket that has frames.
Table(t, files, name) ==
    LET all == ConcatAll(Bucket(t, files, name))
    IN CASE name \in {"price_daily", "price_weekly"} ->
              FilterRows(all, LAMBDA r : r["date"] # NaT)
         [] name = "economic_indicators" -> all
         [] name = "company_overview" ->
              DropCols(all, SelectSeq(all.cols,
                                      LAMBDA c : c = "Error Message" \/ AllMissing(all, c)))
         [] OTHER -> DropCol(all, "Information")

\* How a call of transform_raw_to_final on the tree ends, given its outputs.
TransformStatus(t, outputs) ==
    IF \A p \in DOMAIN t : ~Exists(t, p) THEN "no_files"
    ELSE IF \E p \in DOMAIN t : Exists(t, p) /\ ~Readable(t, p) THEN "read_failed"
    ELSE IF outputs = {} THEN "no_data"
    ELSE "ok"

\* <<status, domain-table directory>> after transform_raw_to_final on tree t.
transform_raw_to_final(t, old) ==
    IF \A p \in DOMAIN t : ~Exists(t, p) THEN <<"no_files", old>>
    ELSE IF \E p \in DOMAIN t : Exists(t, p) /\ ~Readable(t, p) THEN <<"read_failed", old>>
    ELSE LET files == RGlob(t)
             outputs == {name \in TableNames : Len(Bucket(t, files, name)) > 0}
         IN <<TransformStatus(t, outputs),
              [name \in TableNames |->
                 IF name \in outputs THEN ToParquet(Table(t, files, name)) ELSE old[name]]>>

(***************************************************************************)
(* failure_utils: the failure worklists and their replay.                  *)
(***************************************************************************)
CSV_NAMES == {"failures_all", "company_overview_failures"}

\* out.to_csv(target, index=False) then pd.read_csv(target): the rows, in order.
CsvFile(rows) == [st |-> "file", rows |-> rows]

\* The endpoint directory a raw file lies under.
EndpointOf(path) ==
    IF ParentName(path) \in {"annual", "quarterly"} THEN GrandParentName(path)
    ELSE ParentName(path)

\* The raw files the scan keeps: readable, not empty, some cell matches.
FailingFiles(t) ==
    SelectSeq(RGlob(t), LAMBDA p : /\ Readable(t, p)
                                   /\ ~IsEmpty(ReadParquet(t, p))
                                   /\ HasInvalidCall(ReadParquet(t, p)))

\* The worklists after export_all_failures on tree t: nothing is written when the
\* scan keeps no file.
export_all_failures(t, csvs) ==
    LET files == FailingFiles(t)
        rows == [i \in 1..Len(files) |->
                   [ticker |-> Stem(files[i]), function |-> EndpointOf(files[i]),
                    path |-> files[i]]]
    IN IF Len(rows) = 0 THEN csvs ELSE [csvs EXCEPT !["failures_all"] = CsvFile(rows)]

\* The domain table each scan of the aggregated data reads: final_dataset_path(name).
ScannedTable(scan) ==
    CASE scan = "export_fundamental_failures" -> "fundamentals"
      [] scan = "export_company_overview_failures" -> "company_overview"

\* The file <name>.parquet is in the domain-table directory.
TableExists(tables, name) == name \in DOMAIN tables /\ tables[name].st = "file"

\* The worklists after export_fundamental_failures on the domain tables: the rows of
\* the scanned table that hold the error text go to failures_temp.csv; a missing
\* table makes pd.read_parquet raise.
export_fundamental_failures(tables, csvs) ==
    IF ~TableExists(tables, ScannedTable("export_fundamental_failures")) THEN csvs
    ELSE LET table == tables[ScannedTable("export_fundamental_failures")]
             failed == InvalidRows(Frame(table.cols, table.rows))
             Field(r, a, b) == IF HasCol(failed, a) THEN r[a]
                               ELSE IF HasCol(failed, b) THEN r[b]
                               ELSE ""
             rows == [i \in 1..Len(failed.rows) |->
                        [ticker |-> Field(failed.rows[i], "ticker", "symbol"),
                         function |-> Field(failed.rows[i], "statement", "function")]]
         IN IF IsEmpty(failed) THEN csvs
            ELSE [name \in DOMAIN csvs \cup {"failures_temp"} |->
                    IF name = "failures_temp" THEN CsvFile(rows) ELSE csvs[name]]

\* The worklists after export_company_overview_failures on the domain tables; a
\* missing company_overview table makes pd.read_parquet raise.
export_company_overview_failures(tables, csvs) ==
    LET table == tables["company_overview"]
        failed == InvalidRows(Frame(table.cols, table.rows))
        TickerOf(r) == IF HasCol(failed, "ticker") THEN r["ticker"]
                       ELSE IF HasCol(failed, "symbol") THEN r["symbol"]
                       ELSE ""
        rows == [i \in 1..Len(failed.rows) |->
                   [ticker |-> TickerOf(failed.rows[i]), function |-> "OVERVIEW"]]
    IN IF table.st # "file" THEN csvs
       ELSE IF IsEmpty(failed) THEN csvs
       ELSE [csvs EXCEPT !["company_overview_failures"] = CsvFile(rows)]

\* The request refetch_failures issues for a record of the worklist.
ReplayRequest(r) ==
    [client |-> "fetch_json", function |-> REST_FUNCTION_MAP(r.function),
     params |-> {<<"symbol", r.ticker>>}]

\* single_path.unlink() when the file exists.
Unlink(t, path) == IF Exists(t, path) THEN [t EXCEPT ![path] = Absent] ELSE t

\* The file writes of the replay of one record for the flattened row set d.
RefetchWrites(endpoint, ticker, d) ==
    IF endpoint \in PERIODIZED THEN SplitWrites(d, endpoint, ticker)
    ELSE <<[path |-> SinglePath(endpoint, ticker), frame |-> d]>>

\* The tree after the try block of refetch_failures ran to its end for one record.
Refetched(t, endpoint, ticker, d) ==
    IF endpoint \in PERIODIZED
      THEN Unlink(_write_split_by_period(t, d, endpoint, ticker),
                  SinglePath(endpoint, ticker))
      ELSE [t EXCEPT ![SinglePath(endpoint, ticker)] = ToParquet(d)]

NoWorklist == [name |-> "none", rows |-> <<>>]

(***************************************************************************)
(* run_ingestion as a process: one step per unit of the loops.             *)
(***************************************************************************)
\* What a reader finds at a path: absent, corrupt, empty (no rows) or rows.
StatusOf(t, path) ==
    IF ~Exists(t, path) THEN "absent"
    ELSE IF ~Readable(t, path) THEN "corrupt"
    ELSE IF Len(t[path].rows) = 0 THEN "empty"
    ELSE "rows"

\* The files the resume check of a unit looks at.
CheckedPaths(u) ==
    IF periodized(u) THEN <<PeriodPath(u.endpoint, "annual", u.ticker),
                            PeriodPath(u.endpoint, "quarterly", u.ticker)>>
    ELSE <<out_path(u)>>

Found(t, u) == [i \in 1..Len(CheckedPaths(u)) |-> StatusOf(t, CheckedPaths(u)[i])]

Event(kind, i, found) == [kind |-> kind, idx |-> i, found |-> found]

\* Variant: the WRDS credentials are checked where they are used, after the
\* constituents files are written.
PREAMBLE_LateWrdsCheck ==
    <<"load_credentials", "check_av_key", "check_dates", "write_wrds_files", "check_wrds_creds">>

\* The preamble of run_ingestion, in the order of the code: the checks that can
\* raise and the first write to the raw directory.
PREAMBLE ==
    <<"load_credentials", "check_av_key", "check_dates", "check_wrds_creds", "write_wrds_files">>

\* What a call finds: the credentials file, its keys, and the dates given by
\* argument or by config/datalist.yml.
Settings ==
    [file : BOOLEAN, alphavantage_api_paid : {"", "key"},
     wrds_username : {"", "user"}, wrds_password : {"", "secret"},
     date_arg : BOOLEAN, date_cfg : BOOLEAN]

\* The step of the preamble raises under the settings s.
StepRaises(step, s) ==
    CASE step = "load_credentials" -> ~s.file
      [] step = "check_av_key" -> s.alphavantage_api_paid = ""
      [] step = "check_dates" -> ~(s.date_arg \/ s.date_cfg)
      [] step = "check_wrds_creds" -> s.wrds_username = "" \/ s.wrds_password = ""
      [] OTHER -> FALSE

\* Index of the step of the preamble that raises, 0 if none does.
RaisesAt(s) ==
    IF \E i \in 1..Len(PREAMBLE) : StepRaises(PREAMBLE[i], s)
      THEN CHOOSE i \in 1..Len(PREAMBLE) :
              /\ StepRaises(PREAMBLE[i], s)
              /\ \A j \in 1..(i - 1) : ~StepRaises(PREAMBLE[j], s)
      ELSE 0

\* The wrds_ files are written before step i of the preamble.
WritesBefore(i) == \E j \in 1..(i - 1) : PREAMBLE[j] = "write_wrds_files"

\* time.sleep(sleep_seconds) closes a unit that fetched and wrote; a skipped
\* unit leaves the loop body with continue before it.
Sleeps_Never(kind) == FALSE

Sleeps(kind) == kind = "written"

NoCsv == [st |-> "absent", rows |-> <<>>]

NoArg == [fn |-> "none"]

NoProcs == <<>>

NoRet == [fn |-> "none"]

Stopped == pc \in {"idle", "done", "raised", "killed"}

AtUnit == pc = "running" /\ idx <= NumUnits

\* A call of run_ingestion passes its configuration checks, writes the wrds_
\* files and enters the loops.
StartRun ==
    /\ Stopped
    /\ rpc # "running"
    /\ runs < MaxRuns
    /\ \E s \in Settings : RaisesAt(s) = 0
    /\ \E r \in BOOLEAN : resume' = r
    /\ pc' = "running"
    /\ idx' = 1
    /\ runs' = runs + 1
    /\ prev' = pc
    /\ df' = EmptyFrame
    /\ ev' = Event("start", 0, <<>>)
    /\ wrds' = "written"
    /\ last_call' = 0
    /\ pauses' = 0
    /\ UNCHANGED <<cfg, tree, final, tstatus, triage_vars, call_vars, race_vars>>

\* A call of run_ingestion raises in its preamble: a credential or a date is missing.
ConfigRaises ==
    /\ Stopped
    /\ rpc # "running"
    /\ runs < MaxRuns
    /\ \E s \in Settings :
          /\ RaisesAt(s) > 0
          /\ ev' = Event("config_error", 0, <<PREAMBLE[RaisesAt(s)]>>)
          /\ wrds' = IF WritesBefore(RaisesAt(s)) THEN "written" ELSE wrds
    /\ \E r \in BOOLEAN : resume' = r
    /\ pc' = "raised"
    /\ idx' = 0
    /\ runs' = runs + 1
    /\ prev' = pc
    /\ df' = EmptyFrame
    /\ last_call' = 0
    /\ pauses' = 0
    /\ UNCHANGED <<cfg, tree, final, tstatus, triage_vars, call_vars, race_vars>>

\* The resume check finds the unit complete: continue, no provider call.
SkipUnit ==
    /\ AtUnit
    /\ ResumeSkips(tree, resume, UnitAt(idx))
    /\ idx' = idx + 1
    /\ ev' = Event("skip", idx, Found(tree, UnitAt(idx)))
    /\ pauses' = pauses + (IF Sleeps("skip") THEN 1 ELSE 0)
    /\ UNCHANGED <<cfg, tree, pc, resume, runs, prev, df, final, tstatus, wrds, last_call,
                   triage_vars, call_vars, race_vars>>

\* Provider call, flatten, date filter, write, sleep.
FetchUnit ==
    /\ AtUnit
    /\ ~ResumeSkips(tree, resume, UnitAt(idx))
    /\ \E d \in Fetched(UnitAt(idx)) :
          /\ df' = d
          /\ tree' = IF UnitAt(idx).kind = "full_history"
                       THEN _write_split_by_period(tree, d, UnitAt(idx).endpoint,
                                                   UnitAt(idx).ticker)
                       ELSE _write_parquet(tree, d, out_path(UnitAt(idx)))
    /\ idx' = idx + 1
    /\ ev' = Event("written", idx, Found(tree, UnitAt(idx)))
    /\ last_call' = idx
    /\ pauses' = IF Sleeps("written") THEN 1 ELSE 0
    /\ UNCHANGED <<cfg, pc, resume, runs, prev, final, tstatus, wrds, triage_vars, call_vars, race_vars>>

\* The provider call raises (resp.raise_for_status): nothing catches it.
FetchRaises ==
    /\ AtUnit
    /\ ~ResumeSkips(tree, resume, UnitAt(idx))
    /\ pc' = "raised"
    /\ ev' = Event("fetch_failed", idx, Found(tree, UnitAt(idx)))
    /\ last_call' = idx
    /\ pauses' = 0
    /\ UNCHANGED <<cfg, tree, idx, resume, runs, prev, df, final, tstatus, wrds,
                   triage_vars, call_vars, race_vars>>

\* The process is terminated inside df.to_parquet of write number k of the unit.
KilledInWrite ==
    /\ AtUnit
    /\ ~ResumeSkips(tree, resume, UnitAt(idx))
    /\ \E d \in Fetched(UnitAt(idx)) :
          \E k \in 1..Len(UnitWrites(UnitAt(idx), d)) :
             /\ df' = d
             /\ tree' = CutShort(tree, UnitWrites(UnitAt(idx), d), k)
    /\ pc' = "killed"
    /\ ev' = Event("killed_in_write", idx, Found(tree, UnitAt(idx)))
    /\ last_call' = idx
    /\ pauses' = 0
    /\ UNCHANGED <<cfg, idx, resume, runs, prev, final, tstatus, wrds, triage_vars, call_vars, race_vars>>

\* The process is terminated between the two writes of a split.
KilledBetweenWrites ==
    /\ AtUnit
    /\ ~ResumeSkips(tree, resume, UnitAt(idx))
    /\ \E d \in Fetched(UnitAt(idx)) :
          \E k \in 1..(Len(UnitWrites(UnitAt(idx), d)) - 1) :
             /\ df' = d
             /\ tree' = ApplyWrites(tree, UnitWrites(UnitAt(idx), d), k)
    /\ pc' = "killed"
    /\ ev' = Event("killed_between_writes", idx, Found(tree, UnitAt(idx)))
    /\ last_call' = idx
    /\ pauses' = 0
    /\ UNCHANGED <<cfg, idx, resume, runs, prev, final, tstatus, wrds, triage_vars, call_vars, race_vars>>

\* The process is terminated outside any write.
Killed ==
    /\ pc = "running"
    /\ pc' = "killed"
    /\ ev' = Event("killed", idx, <<>>)
    /\ UNCHANGED <<cfg, tree, idx, resume, runs, prev, df, final, tstatus, run_vars,
                   triage_vars, call_vars, race_vars>>

\* A call of transform_raw_to_final, between ingestion runs.
Transform ==
    /\ Stopped
    /\ rpc # "running"
    /\ LET result == transform_raw_to_final(tree, final)
       IN tstatus' = result[1] /\ final' = result[2]
    /\ ev' = Event("transform", 0, <<>>)
    /\ UNCHANGED <<cfg, tree, pc, idx, resume, runs, prev, df, run_vars, triage_vars,
                   call_vars, race_vars>>

\* The loops are exhausted: run_ingestion returns.
FinishRun ==
    /\ pc = "running"
    /\ idx > NumUnits
    /\ pc' = "done"
    /\ ev' = Event("returned", idx, <<>>)
    /\ UNCHANGED <<cfg, tree, idx, resume, runs, prev, df, final, tstatus, run_vars,
                   triage_vars, call_vars, race_vars>>

(***************************************************************************)
(* failure_utils as processes: the exports, and one step per record of the *)
(* replay loop of refetch_failures.                                        *)
(***************************************************************************)
\* One ticker, a non-periodized and a periodized fundamentals endpoint.
ConfigTriage ==
    [tickers |-> <<"A">>,
     time_series |-> <<>>,
     fundamentals |-> <<"COMPANY_OVERVIEW", "INCOME_STATEMENT">>,
     economic_indicators |-> <<>>]

\* One ticker, an endpoint called with keywords and one called without a ticker.
ConfigReplay ==
    [tickers |-> <<"A">>,
     time_series |-> <<>>,
     fundamentals |-> <<"SYMBOL_SEARCH">>,
     economic_indicators |-> <<"REAL_GDP">>]

AtRecord == rpc = "running" /\ ridx <= Len(worklist.rows)

\* The record the replay loop is at.
Record == worklist.rows[ridx]

\* The settings refetch_failures reads: the credentials file and the paid key.
RefetchSettings == [file : BOOLEAN, alphavantage_api_paid : {"", "key"}]

\* How refetch_failures starts on a worklist file under the settings s: read_csv
\* raises without the file, an empty worklist returns, a missing credentials file or
\* key raises, otherwise the loop is entered.
RefetchEntry(csv, s) ==
    IF csv.st # "file" THEN "raised"
    ELSE IF Len(csv.rows) = 0 THEN "done"
    ELSE IF StepRaises("load_credentials", s) \/ StepRaises("check_av_key", s) THEN "raised"
    ELSE "running"

\* A call of export_all_failures, between ingestion runs.
ExportAllFailures ==
    /\ Stopped
    /\ rpc # "running"
    /\ failures' = export_all_failures(tree, failures)
    /\ ev' = Event("export_all", 0, <<>>)
    /\ UNCHANGED <<cfg, tree, pc, idx, resume, runs, prev, df, final, tstatus, run_vars,
                   rpc, ridx, worklist, replays, call_vars, race_vars>>

\* A call of export_fundamental_failures, between ingestion runs.
ExportFundamentalFailures ==
    /\ Stopped
    /\ rpc # "running"
    /\ failures' = export_fundamental_failures(final, failures)
    /\ ev' = Event("export_fundamental", 0,
                   IF TableExists(final, ScannedTable("export_fundamental_failures"))
                     THEN <<"returned">> ELSE <<"raised">>)
    /\ UNCHANGED <<cfg, tree, pc, idx, resume, runs, prev, df, final, tstatus, run_vars,
                   rpc, ridx, worklist, replays, call_vars, race_vars>>

\* A call of export_company_overview_failures, between ingestion runs.
ExportCompanyOverviewFailures ==
    /\ Stopped
    /\ rpc # "running"
    /\ failures' = export_company_overview_failures(final, failures)
    /\ ev' = Event("export_company_overview", 0, <<>>)
    /\ UNCHANGED <<cfg, tree, pc, idx, resume, runs, prev, df, final, tstatus, run_vars,
                   rpc, ridx, worklist, replays, call_vars, race_vars>>

\* A call of refetch_failures on one of the worklist files.
RefetchStart ==
    /\ Stopped
    /\ rpc # "running"
    /\ replays < MaxReplays
    /\ replays' = replays + 1
    /\ \E name \in CSV_NAMES : \E s \in RefetchSettings :
          /\ rpc' = RefetchEntry(failures[name], s)
          /\ worklist' = IF failures[name].st = "file"
                            THEN [name |-> name, rows |-> failures[name].rows]
                            ELSE NoWorklist
          /\ ridx' = IF RefetchEntry(failures[name], s) = "running" THEN 1 ELSE 0
          /\ ev' = Event("refetch_start", 0, <<name>>)
    /\ UNCHANGED <<cfg, tree, pc, idx, resume, runs, prev, df, final, tstatus, run_vars,
                   failures, call_vars, race_vars>>

\* The try block runs to its end for the record: fetch, flatten, write, and for a
\* periodized endpoint the removal of the unqualified file.
RefetchRecord ==
    /\ AtRecord
    /\ \E payload \in JsonPayloads(REST_FUNCTION_MAP(Record.function), Record.ticker) :
          /\ df' = _json_to_df(payload)
          /\ tree' = Refetched(tree, Record.function, Record.ticker, _json_to_df(payload))
    /\ ridx' = ridx + 1
    /\ ev' = Event("refetched", ridx, <<>>)
    /\ UNCHANGED <<cfg, pc, idx, resume, runs, prev, final, tstatus, run_vars,
                   failures, rpc, worklist, replays, call_vars, race_vars>>

\* fetch_json or _json_to_df raises for the record: the except branch logs it.
RefetchFails ==
    /\ AtRecord
    /\ \E cause \in {"transport", "flatten"} : ev' = Event("refetch_failed", ridx, <<cause>>)
    /\ ridx' = ridx + 1
    /\ UNCHANGED <<cfg, tree, pc, idx, resume, runs, prev, df, final, tstatus, run_vars,
                   failures, rpc, worklist, replays, call_vars, race_vars>>

\* to_parquet raises in write number k of the record, before it touched the file or
\* with the file cut short: the except branch logs it.
RefetchWriteFails ==
    /\ AtRecord
    /\ \E payload \in JsonPayloads(REST_FUNCTION_MAP(Record.function), Record.ticker) :
          LET d == _json_to_df(payload)
              writes == RefetchWrites(Record.function, Record.ticker, d)
          IN \E k \in 1..Len(writes) : \E cut \in BOOLEAN :
                /\ df' = d
                /\ tree' = IF cut THEN CutShort(tree, writes, k)
                            ELSE ApplyWrites(tree, writes, k - 1)
    /\ ridx' = ridx + 1
    /\ ev' = Event("refetch_failed", ridx, <<"write">>)
    /\ UNCHANGED <<cfg, pc, idx, resume, runs, prev, final, tstatus, run_vars,
                   failures, rpc, worklist, replays, call_vars, race_vars>>

\* The worklist is exhausted: refetch_failures returns.
RefetchFinish ==
    /\ rpc = "running"
    /\ ridx > Len(worklist.rows)
    /\ rpc' = "done"
    /\ ev' = Event("refetch_returned", ridx, <<>>)
    /\ UNCHANGED <<cfg, tree, pc, idx, resume, runs, prev, df, final, tstatus, run_vars,
                   failures, ridx, worklist, replays, call_vars, race_vars>>

(***************************************************************************)
(* Two run_ingestion processes, started with resume on, on one raw tree:   *)
(* one step per resume check, provider call and file write.                *)
(***************************************************************************)
PROCS == {"first", "second"}

\* A process at its first unit: pc is check, write or done; d is the row set of its
\* last provider call, k the file write it is at, saw what its resume check found.
StartProc == [pc |-> "check", idx |-> 1, d |-> EmptyFrame, k |-> 0, saw |-> <<>>]

\* The process is at the resume check of a unit.
AtCheck(p) == procs[p].pc = "check" /\ procs[p].idx <= NumUnits

\* The file write the process is at.
PendingWrite(p) == UnitWrites(UnitAt(procs[p].idx), procs[p].d)[procs[p].k]

\* The resume check of the process finds the unit complete: continue.
RaceSkip ==
    /\ \E p \in PROCS :
          /\ AtCheck(p)
          /\ ResumeSkips(tree, TRUE, UnitAt(procs[p].idx))
          /\ procs' = [procs EXCEPT ![p].idx = @ + 1]
          /\ ev' = Event("race_skip", procs[p].idx, <<p>>)
    /\ UNCHANGED <<cfg, tree, pc, idx, resume, runs, prev, df, final, tstatus, run_vars,
                   triage_vars, call_vars>>

\* The resume check fails and the provider call returns a row set; no file is
\* touched and nothing tells the other process.
RaceCall ==
    /\ \E p \in PROCS :
          /\ AtCheck(p)
          /\ ~ResumeSkips(tree, TRUE, UnitAt(procs[p].idx))
          /\ \E d \in Fetched(UnitAt(procs[p].idx)) :
                procs' = [procs EXCEPT ![p] =
                            [pc |-> "write", idx |-> procs[p].idx, d |-> d, k |-> 1,
                             saw |-> Found(tree, UnitAt(procs[p].idx))]]
          /\ ev' = Event("race_call", procs[p].idx, <<p>>)
    /\ UNCHANGED <<cfg, tree, pc, idx, resume, runs, prev, df, final, tstatus, run_vars,
                   triage_vars, call_vars>>

\* One _write_parquet of the process; after the last one of the unit the loop
\* goes on.
RaceWrite ==
    /\ \E p \in PROCS :
          /\ procs[p].pc = "write"
          /\ tree' = _write_parquet(tree, PendingWrite(p).frame, PendingWrite(p).path)
          /\ df' = PendingWrite(p).frame
          /\ procs' = IF procs[p].k < Len(UnitWrites(UnitAt(procs[p].idx), procs[p].d))
                         THEN [procs EXCEPT ![p].k = @ + 1]
                         ELSE [procs EXCEPT ![p].pc = "check", ![p].idx = @ + 1, ![p].k = 0]
          /\ ev' = Event("race_write", procs[p].idx, <<p>>)
    /\ UNCHANGED <<cfg, pc, idx, resume, runs, prev, final, tstatus, run_vars, triage_vars,
                   call_vars>>

\* The loops of the process are exhausted: its run_ingestion returns.
RaceReturn ==
    /\ \E p \in PROCS :
          /\ procs[p].pc = "check"
          /\ procs[p].idx > NumUnits
          /\ procs' = [procs EXCEPT ![p].pc = "done"]
          /\ ev' = Event("race_returned", procs[p].idx, <<p>>)
    /\ UNCHANGED <<cfg, tree, pc, idx, resume, runs, prev, df, final, tstatus, run_vars,
                   triage_vars, call_vars>>

(***************************************************************************)
(* Calls of the flattener and of the date filter on their own.             *)
(***************************************************************************)
GoodSeries ==
    Dict(<<Entry(D1, Dict(<<Entry("4. close", Scalar("10"))>>)),
           Entry(D2, Dict(<<Entry("4. close", Scalar("11"))>>))>>)

\* Values under a series key: a map of date -> map, and well-formed values of
\* other shapes.
SeriesValues ==
    { GoodSeries,
      Dict(<<>>),
      Scalar("n/a"),
      Dict(<<Entry("n/a", Dict(<<Entry("4. close", Scalar("10"))>>))>>),
      Dict(<<Entry(D1, Scalar("10"))>>),
      List(<<>>) }

MetaValues == { Dict(<<Entry("2. Symbol", Scalar("A"))>>), Scalar("n/a") }

CsvText ==
    Str("csv", List(<<Dict(<<Entry("timestamp", Scalar(D1)), Entry("close", Scalar("10"))>>)>>))

Dicts ==
    {Dict(<<Entry(k, v)>>) : k \in SERIES_KEYS, v \in SeriesValues}
    \cup {Dict(<<Entry("Meta Data", m), Entry(k, v)>>) :
             m \in MetaValues, k \in SERIES_KEYS, v \in SeriesValues}
    \cup {Dict(<<Entry("Global Quote", q)>>) :
             q \in {Dict(<<Entry("01. symbol", Scalar("A")), Entry("05. price", Scalar("10"))>>),
                    Scalar("n/a")}}
    \cup {Dict(<<Entry("Symbol", Scalar("A"))>>),
          Dict(<<Entry("Information", Scalar(ERROR_TEXT))>>),
          Dict(<<>>)}
    \cup {Dict(<<Entry("preview", Scalar("true")), Entry("data_type", Scalar("csv")),
                 Entry("sample_data", t), Entry("symbol", Scalar("A"))>>) :
             t \in {CsvText, Str("empty", Scalar("")), Scalar("5")}}

Strings ==
    {Str(syntax, d) : syntax \in {"json", "literal"}, d \in Dicts}
    \cup {CsvText, Str("plain", Scalar("")), Str("empty", Scalar("")), Str("json", Scalar("5"))}

\* The well-formed payloads handed to _content_to_df.
Contents ==
    Dicts \cup Strings
    \cup {List(<<Dict(<<Entry("text", t)>>)>>) : t \in Strings \cup {Scalar("5")}}
    \cup {List(<<>>),
          List(<<Dict(<<Entry("Symbol", Scalar("A"))>>), Dict(<<Entry("Symbol", Scalar("B"))>>)>>)}
    \cup {Scalar("5"), Scalar("None")}

FilterColumns ==
    {<<"date", "x">>, <<"timestamp", "x">>, <<"datetime", "x">>, <<"timestamp", "date">>, <<"x">>}

\* The frames handed to _filter_date: up to MaxRows rows of dates inside the
\* window (D1, DT2) and after it (D3).
FilterInputs ==
    UNION {{Frame(cs, rows) : rows \in [1..n -> [Range(cs) -> {D1, D3, DT2}]]} :
             cs \in FilterColumns, n \in 0..MaxRows}

Call_content_to_df ==
    /\ \E c \in Contents :
          /\ arg' = [fn |-> "_content_to_df", content |-> c]
          /\ ret' = [fn |-> "_content_to_df", raised |-> _content_to_df(c).raised,
                     frame |-> _content_to_df(c).frame]
    /\ UNCHANGED <<cfg, tree, pc, idx, resume, runs, prev, df, ev, final, tstatus, run_vars,
                   triage_vars, race_vars>>

Call_filter_date ==
    /\ \E f \in FilterInputs :
          /\ arg' = [fn |-> "_filter_date", frame |-> f]
          /\ ret' = [fn |-> "_filter_date", raised |-> FALSE,
                     frame |-> _filter_date(f, date_start, date_end)]
    /\ UNCHANGED <<cfg, tree, pc, idx, resume, runs, prev, df, ev, final, tstatus, run_vars,
                   triage_vars, race_vars>>

\* The labeled annual/quarterly pairs of _json_to_df.
LABELED_PAIRS ==
    {<<"annualReports", "quarterlyReports">>, <<"annualEarnings", "quarterlyEarnings">>,
     <<"annualEarningsEstimates", "quarterlyEarningsEstimates">>}

\* Lists of up to MaxItems report maps with the given value.
ReportLists(value) ==
    {[i \in 1..n |-> [fiscalDateEnding |-> IF i % 2 = 1 THEN D1 ELSE D2,
                      totalRevenue |-> value]] : n \in 0..MaxItems}

\* The payloads handed to _json_to_df: the symbol and the lists of one labeled
\* pair, either list missing, empty or filled and in either key order, and the
\* payloads of the endpoints without a labeled pair.
FlattenPayloads ==
    UNION {
        {<<TextEntry("symbol", "A"), ListEntry(pair[1], a), ListEntry(pair[2], q)>>,
         <<TextEntry("symbol", "A"), ListEntry(pair[2], q), ListEntry(pair[1], a)>>,
         <<TextEntry("symbol", "A"), ListEntry(pair[1], a)>>,
         <<TextEntry("symbol", "A"), ListEntry(pair[2], q)>>} :
        pair \in LABELED_PAIRS, a \in ReportLists("100"), q \in ReportLists("25")}
    \cup JsonPayloads("COMPANY_OVERVIEW", "A") \cup JsonPayloads("REAL_GDP", GLOBAL)

Call_json_to_df ==
    /\ \E payload \in FlattenPayloads :
          /\ arg' = [fn |-> "_json_to_df", payload |-> payload]
          /\ ret' = [fn |-> "_json_to_df", raised |-> FALSE, frame |-> _json_to_df(payload)]
    /\ UNCHANGED <<cfg, tree, pc, idx, resume, runs, prev, df, ev, final, tstatus, run_vars,
                   triage_vars, race_vars>>

InitWith(c) ==
    /\ cfg = c
    /\ tree = [p \in Paths |-> Absent]
    /\ pc = "idle"
    /\ idx = 0
    /\ resume = TRUE
    /\ runs = 0
    /\ prev = "idle"
    /\ df = EmptyFrame
    /\ ev = Event("none", 0, <<>>)
    /\ final = [name \in TableNames |-> Absent]
    /\ tstatus = "none"
    /\ wrds = "absent"
    /\ last_call = 0
    /\ pauses = 0
    /\ failures = [name \in CSV_NAMES |-> NoCsv]
    /\ rpc = "idle"
    /\ ridx = 0
    /\ worklist = NoWorklist
    /\ replays = 0
    /\ arg = NoArg
    /\ ret = NoRet
    /\ procs = NoProcs

Init == InitWith(ConfigAll)

\* The steps of run_ingestion.
Ingestion ==
    \/ StartRun
    \/ ConfigRaises
    \/ SkipUnit
    \/ FetchUnit
    \/ FetchRaises
    \/ KilledInWrite
    \/ KilledBetweenWrites
    \/ Killed
    \/ FinishRun

Next ==
    \/ Ingestion
    \/ Transform

Spec == Init /\ [][Next]_vars

\* run_ingestion alone, on the configuration with every kind of endpoint.
SpecIngestion == Init /\ [][Ingestion]_vars

InitOrder == InitWith(ConfigOrder)

Calls ==
    \/ Call_content_to_df
    \/ Call_filter_date
    \/ Call_json_to_df

\* The flattener and the date filter, called on their own.
SpecCalls == Init /\ [][Calls]_vars

\* run_ingestion alone, on two tickers.
SpecOrder == InitOrder /\ [][Ingestion]_vars

\* The raw trees a run of run_ingestion on an empty raw directory can leave after
\* fetching and writing its first n units.
RECURSIVE AfterUnits(_)
AfterUnits(n) ==
    IF n = 0 THEN {[p \in Paths |-> Absent]}
    ELSE {ApplyWrites(t, UnitWrites(UnitAt(n), d), Len(UnitWrites(UnitAt(n), d))) :
             t \in AfterUnits(n - 1), d \in Fetched(UnitAt(n))}

\* A first run of run_ingestion on the configuration c has returned.
InitAfterRun(c) ==
    /\ cfg = c
    /\ \E t \in AfterUnits(NumUnits - 1) : \E d \in Fetched(UnitAt(NumUnits)) :
          /\ tree = ApplyWrites(t, UnitWrites(UnitAt(NumUnits), d),
                                Len(UnitWrites(UnitAt(NumUnits), d)))
          /\ df = d
    /\ pc = "done"
    /\ idx = NumUnits + 1
    /\ resume = TRUE
    /\ runs = 1
    /\ prev = "idle"
    /\ ev = Event("returned", NumUnits + 1, <<>>)
    /\ final = [name \in TableNames |-> Absent]
    /\ tstatus = "none"
    /\ wrds = "written"
    /\ last_call = NumUnits
    /\ pauses = 1
    /\ failures = [name \in CSV_NAMES |-> NoCsv]
    /\ rpc = "idle"
    /\ ridx = 0
    /\ worklist = NoWorklist
    /\ replays = 0
    /\ arg = NoArg
    /\ ret = NoRet
    /\ procs = NoProcs

\* A first run of run_ingestion on the triage configuration has returned.
InitTriage == InitAfterRun(ConfigTriage)

\* The exports and the replay of failure_utils.
Triage ==
    \/ ExportAllFailures
    \/ ExportCompanyOverviewFailures
    \/ RefetchStart
    \/ RefetchRecord
    \/ RefetchFails
    \/ RefetchWriteFails
    \/ RefetchFinish

NextTriage ==
    \/ Transform
    \/ Triage

\* Transform and failure triage on the raw trees a first run leaves.
SpecTriage == InitTriage /\ [][NextTriage]_vars

\* The scans of failure_utils.
Scans ==
    \/ ExportFundamentalFailures
    \/ ExportCompanyOverviewFailures
    \/ ExportAllFailures

NextScan ==
    \/ Transform
    \/ Scans

\* Transform and the scans on the raw trees a first run leaves.
SpecScan == InitTriage /\ [][NextScan]_vars

\* A first run on a keyword-search endpoint and an economic indicator has returned.
InitReplay == InitAfterRun(ConfigReplay)

\* Failure triage after a run on endpoints that take no symbol argument.
SpecReplay == InitReplay /\ [][NextTriage]_vars

\* Two run_ingestion processes have passed their preamble on an empty raw tree.
InitRace ==
    /\ cfg = ConfigTriage
    /\ tree = [p \in Paths |-> Absent]
    /\ pc = "idle"
    /\ idx = 0
    /\ resume = TRUE
    /\ runs = 0
    /\ prev = "idle"
    /\ df = EmptyFrame
    /\ ev = Event("none", 0, <<>>)
    /\ final = [name \in TableNames |-> Absent]
    /\ tstatus = "none"
    /\ wrds = "written"
    /\ last_call = 0
    /\ pauses = 0
    /\ failures = [name \in CSV_NAMES |-> NoCsv]
    /\ rpc = "idle"
    /\ ridx = 0
    /\ worklist = NoWorklist
    /\ replays = 0
    /\ arg = NoArg
    /\ ret = NoRet
    /\ procs = [p \in PROCS |-> StartProc]

Race ==
    \/ RaceSkip
    \/ RaceCall
    \/ RaceWrite
    \/ RaceReturn

\* Two overlapping runs of run_ingestion on the fundamentals endpoints.
SpecRace == InitRace /\ [][Race]_vars

(***************************************************************************)
(* Properties of run_ingestion and the partition writer.                   *)
(***************************************************************************)
\* The steps that handle one unit, and those among them that call the provider.
UnitStepKinds == {"skip", "written", "fetch_failed", "killed_in_write", "killed_between_writes"}

CallKinds == UnitStepKinds \ {"skip"}

\* The step about to be taken handles the unit the loop is at.
UnitStep == AtUnit /\ ev'.kind \in UnitStepKinds /\ ev'.idx = idx

\* C1: in a resume-enabled run, a non-periodized unit whose partition holds at
\* least one row is skipped without a provider call and without touching the
\* tree; one whose partition is present with zero rows is fetched, and the
\* rows fetched are written to the partition.
C1_ResumeNonPeriodized ==
    [][(UnitStep /\ resume /\ ~periodized(UnitAt(idx))) =>
          LET p == out_path(UnitAt(idx))
          IN /\ StatusOf(tree, p) = "rows" =>
                    (ev'.kind = "skip" /\ tree' = tree /\ df' = df)
             /\ StatusOf(tree, p) = "empty" =>
                    /\ ev'.kind \in CallKinds
                    /\ ev'.kind = "written" => tree'[p] = ToParquet(df')]_vars

\* A resume-enabled run found a non-periodized partition empty and wrote it again.
C1_Witness ==
    /\ ev.kind = "written"
    /\ resume
    /\ ~periodized(UnitAt(ev.idx))
    /\ ev.found = <<"empty">>
    /\ tree[out_path(UnitAt(ev.idx))] = ToParquet(df)

\* C2: in a resume-enabled run, a periodized unit is skipped exactly when both
\* its annual and its quarterly partition are readable and hold rows; otherwise
\* the provider is called.
C2_ResumePeriodized ==
    [][(UnitStep /\ resume /\ periodized(UnitAt(idx))) =>
          LET u == UnitAt(idx)
              both == /\ StatusOf(tree, PeriodPath(u.endpoint, "annual", u.ticker)) = "rows"
                      /\ StatusOf(tree, PeriodPath(u.endpoint, "quarterly", u.ticker)) = "rows"
          IN /\ ev'.kind = "skip" <=> both
             /\ ev'.kind = "skip" => (tree' = tree /\ df' = df)]_vars

\* A resume-enabled run fetched a periodized unit that had only its annual partition.
C2_Witness ==
    /\ ev.kind = "written"
    /\ resume
    /\ periodized(UnitAt(ev.idx))
    /\ ev.found = <<"rows", "absent">>

\* C3: after the write of a unit, every partition written holds exactly the
\* rows of that write, and performing the same write again leaves the tree as
\* it is.
C3_WriteIsFullReplace ==
    ev.kind = "written" =>
        LET u == UnitAt(ev.idx)
            writes == UnitWrites(u, df)
            again == IF u.kind = "full_history"
                       THEN _write_split_by_period(tree, df, u.endpoint, u.ticker)
                       ELSE _write_parquet(tree, df, out_path(u))
        IN /\ \A i \in 1..Len(writes) : tree[writes[i].path] = ToParquet(writes[i].frame)
           /\ again = tree

\* A run without resume wrote rows over a partition that already held rows.
C3_Witness ==
    /\ ev.kind = "written"
    /\ ~resume
    /\ ~periodized(UnitAt(ev.idx))
    /\ ev.found = <<"rows">>
    /\ Len(df.rows) > 0

\* C4: after _write_split_by_period has written rows carrying period_type, each
\* period observed in the rows has its period partition, which reads back as
\* exactly the rows of that period without the period_type column, and every
\* row is held by exactly one partition of the pair.
C4_SplitRoundTrip ==
    (ev.kind = "written" /\ UnitAt(ev.idx).kind = "full_history" /\ HasCol(df, "period_type")) =>
        LET u == UnitAt(ev.idx)
            Strip(r) == [k \in (DOMAIN r) \ {"period_type"} |-> r[k]]
            observed == {df.rows[i]["period_type"] : i \in 1..Len(df.rows)}
            OfPeriod(period) == SelectSeq(df.rows, LAMBDA r : r["period_type"] = period)
            pair == {SinglePath(u.endpoint, u.ticker)}
                      \cup {PeriodPath(u.endpoint, period, u.ticker) : period \in Range(PERIODS)}
        IN /\ \A period \in observed :
                 LET path == PeriodPath(u.endpoint, period, u.ticker)
                 IN /\ Readable(tree, path)
                    /\ ~HasCol(ReadParquet(tree, path), "period_type")
                    /\ ReadParquet(tree, path).rows =
                          [i \in 1..Len(OfPeriod(period)) |-> Strip(OfPeriod(period)[i])]
           /\ \A i \in 1..Len(df.rows) :
                 Cardinality({path \in pair :
                                 /\ Readable(tree, path)
                                 /\ Strip(df.rows[i]) \in Range(tree[path].rows)}) = 1

\* A unit was written from rows of both periods.
C4_Witness ==
    /\ ev.kind = "written"
    /\ UnitAt(ev.idx).kind = "full_history"
    /\ HasCol(df, "period_type")
    /\ {df.rows[i]["period_type"] : i \in 1..Len(df.rows)} = {"annual", "quarterly"}

\* C5: every raw partition is absent or holds the complete row set of one
\* write, also after a run is terminated while a write is in progress.
C5_NoPartialPartition == \A p \in DOMAIN tree : tree[p].st \in {"absent", "file"}

\* C6: in a resume-enabled run that follows a terminated run, a unit is skipped
\* exactly when every partition its resume check reads is readable and holds
\* rows; a unit with an absent, empty or unreadable partition is fetched.
C6_ResumeAfterTermination ==
    [][(UnitStep /\ resume /\ prev = "killed") =>
          LET paths == Range(CheckedPaths(UnitAt(idx)))
          IN /\ ev'.kind = "skip" <=> \A p \in paths : StatusOf(tree, p) = "rows"
             /\ (\E p \in paths : StatusOf(tree, p) \in {"absent", "empty", "corrupt"})
                    => ev'.kind \in CallKinds]_vars

\* After a terminated run, a resume-enabled run rewrote a unit whose file was cut short.
C6_Witness ==
    /\ prev = "killed"
    /\ resume
    /\ ev.kind = "written"
    /\ \E i \in 1..Len(ev.found) : ev.found[i] = "corrupt"

\* C7: when the provider call of a unit fails, the run goes on with the next unit.
C7_FailureIsolated == ev.kind = "fetch_failed" => (pc = "running" /\ idx = ev.idx + 1)

(***************************************************************************)
(* Properties of transform_raw_to_final.                                   *)
(***************************************************************************)
\* The domain table the partition <endpoint>/<ticker>.parquet belongs to.
TableOfEndpoint(endpoint) ==
    CASE endpoint = "TIME_SERIES_DAILY_ADJUSTED" -> "price_daily"
      [] endpoint = "TIME_SERIES_WEEKLY_ADJUSTED" -> "price_weekly"
      [] endpoint = "COMPANY_OVERVIEW" -> "company_overview"
      [] endpoint \in ECONOMIC_ENDPOINTS_DEFAULT -> "economic_indicators"
      [] endpoint \in FUNDAMENTALS_ENDPOINTS -> FundamentalsTable(endpoint)

\* C8: a transform run over a tree with an unreadable partition does not
\* abort on it, and the table of every readable partition that holds rows is
\* written.
C8_UnreadableSkipped ==
    (ev.kind = "transform" /\ \E p \in DOMAIN tree : StatusOf(tree, p) = "corrupt") =>
        /\ tstatus # "read_failed"
        /\ \A p \in DOMAIN tree :
              (Len(p) = 2 /\ StatusOf(tree, p) = "rows") =>
                  final[TableOfEndpoint(p[1])].st = "file"

\* C9: after a transform run that returned, every row of every fundamentals
\* partition that holds rows, in either layout, is in the table of its
\* statement, tagged with the partition's ticker and, for a period partition,
\* with the period of its directory.
C9_FundamentalsAggregated ==
    (ev.kind = "transform" /\ tstatus = "ok") =>
        \A p \in DOMAIN tree :
            (p[1] \in FUNDAMENTALS_ENDPOINTS /\ StatusOf(tree, p) = "rows") =>
                LET table == final[FundamentalsTable(p[1])]
                    part == ReadParquet(tree, p)
                IN /\ table.st = "file"
                   /\ \A i \in 1..Len(part.rows) :
                         \E j \in 1..Len(table.rows) :
                            /\ table.rows[j]["ticker"] = Stem(p)
                            /\ Len(p) = 3 => /\ "period_type" \in Range(table.cols)
                                             /\ table.rows[j]["period_type"] = p[2]
                            /\ \A c \in Range(part.cols) \ {"Information"} :
                                  /\ c \in Range(table.cols)
                                  /\ table.rows[j][c] = part.rows[i][c]

\* C10: price_daily and price_weekly hold no two rows with the same
\* (ticker, date) pair.
C10_NoDuplicateTickerDate ==
    \A name \in {"price_daily", "price_weekly"} :
        \A i, j \in 1..Len(final[name].rows) :
            i # j => <<final[name].rows[i]["ticker"], final[name].rows[i]["date"]>>
                       # <<final[name].rows[j]["ticker"], final[name].rows[j]["date"]>>

(***************************************************************************)
(* Properties of the preamble, the iteration order and the rate limit.     *)
(***************************************************************************)
\* C17: when run_ingestion raises for a missing credential, key or date,
\* the call has issued no provider call and has written nothing to the raw
\* directory: the step that raises starts from a state where no run is in its
\* loops and leaves the partitions and the wrds_ files as they were.
C17_ConfigErrorBeforeWork ==
    [][ev'.kind = "config_error" =>
          /\ Stopped
          /\ pc' = "raised"
          /\ tree' = tree
          /\ wrds' = wrds
          /\ last_call' = 0]_vars

\* The first call of run_ingestion raised for missing WRDS credentials.
C17_Witness ==
    /\ ev.kind = "config_error"
    /\ ev.found = <<"check_wrds_creds">>
    /\ runs = 1
    /\ wrds = "absent"

Pos(list, x) == CHOOSE i \in 1..Len(list) : list[i] = x

\* Unit u comes before unit v in the order: tickers sorted; per ticker the
\* time-series endpoints then the fundamentals endpoints, each in configured
\* order; the economic indicators after every ticker, in configured order.
Before(u, v) ==
    IF u.kind = "economic" \/ v.kind = "economic" THEN
        \/ u.kind # "economic"
        \/ /\ u.kind = v.kind
           /\ Pos(cfg.economic_indicators, u.endpoint) < Pos(cfg.economic_indicators, v.endpoint)
    ELSE IF u.ticker # v.ticker THEN Pos(TICKER_ORDER, u.ticker) < Pos(TICKER_ORDER, v.ticker)
    ELSE IF u.kind # v.kind THEN u.kind = "time_series"
    ELSE IF u.kind = "time_series"
        THEN Pos(cfg.time_series, u.endpoint) < Pos(cfg.time_series, v.endpoint)
        ELSE Pos(cfg.fundamentals, u.endpoint) < Pos(cfg.fundamentals, v.endpoint)

\* C19: every provider call of a run comes after the run's previous call in
\* the iteration order, and an economic indicator is written to its single
\* global partition and nowhere else.
C19_CallOrder ==
    [][(UnitStep /\ ev'.kind \in CallKinds) =>
          /\ last_call' = idx
          /\ last_call > 0 => Before(UnitAt(last_call), UnitAt(idx))
          /\ (UnitAt(idx).kind = "economic" /\ ev'.kind = "written") =>
                 /\ tree'[SinglePath(UnitAt(idx).endpoint, GLOBAL)] = ToParquet(df')
                 /\ \A p \in DOMAIN tree :
                       p # SinglePath(UnitAt(idx).endpoint, GLOBAL) => tree'[p] = tree[p]]_vars

\* A first run over two tickers called the provider for every unit and returned.
C19_Witness ==
    /\ pc = "done"
    /\ runs = 1
    /\ Len(tickers) = 2
    /\ last_call = NumUnits
    /\ \A t \in Range(tickers), e \in Range(time_series_endpoints) :
          Exists(tree, SinglePath(e, t))
    /\ \A e \in Range(economic_endpoints) : Exists(tree, SinglePath(e, GLOBAL))

\* C20: when a run issues a provider call after an earlier one, exactly one
\* rate-limit pause lies between the two, and a skipped unit adds no pause.
C20_PauseBetweenCalls ==
    [][UnitStep =>
          /\ (ev'.kind \in CallKinds /\ last_call > 0) => pauses = 1
          /\ ev'.kind = "skip" => pauses' = pauses]_vars

\* A run called the provider, paused once, and then skipped a unit.
C20_Witness ==
    /\ ev.kind = "skip"
    /\ last_call > 0
    /\ last_call < ev.idx
    /\ pauses = 1

(***************************************************************************)
(* Properties of the flattener and of the date filter.                     *)
(***************************************************************************)
\* C16: _content_to_df never raises for a well-formed payload, whatever its
\* shape: it always returns a row set.
C16_NeverRaises == ret.fn = "_content_to_df" => ~ret.raised

\* C18: _filter_date keeps the rows whose date, in the first column present
\* among date, timestamp, datetime, lies in [start, end]; if no row does, it
\* keeps every row; without such a column it returns the rows unchanged.  A
\* non-empty input never gives an empty output.
C18_FilterDate ==
    ret.fn = "_filter_date" =>
        LET d == arg.frame
            out == ret.frame
            col == IF HasCol(d, "date") THEN "date"
                   ELSE IF HasCol(d, "timestamp") THEN "timestamp"
                   ELSE IF HasCol(d, "datetime") THEN "datetime"
                   ELSE ""
            InWindow(r) == /\ DateOrd(ToDate(r[col])) >= DateOrd(date_start)
                           /\ DateOrd(ToDate(r[col])) <= DateOrd(date_end)
            AsDate(r) == [r EXCEPT ![col] = ToDate(@)]
            inside == SelectSeq(d.rows, InWindow)
            kept == IF Len(inside) > 0 THEN inside ELSE d.rows
        IN /\ ~ret.raised
           /\ out.cols = d.cols
           /\ IF col = "" THEN out = d
              ELSE out.rows = [i \in 1..Len(kept) |-> AsDate(kept[i])]
           /\ Len(d.rows) > 0 => Len(out.rows) > 0

\* _filter_date was given two rows, both dated after the window in the column
\* it filters on, and returned both.
C18_Witness ==
    /\ ret.fn = "_filter_date"
    /\ arg.frame.cols = <<"timestamp", "date">>
    /\ Len(arg.frame.rows) = 2
    /\ \A i \in 1..2 : arg.frame.rows[i]["date"] = D3 /\ arg.frame.rows[i]["timestamp"] = D1
    /\ Len(ret.frame.rows) = 2

(***************************************************************************)
(* Properties of the provider error payload and of failure triage.         *)
(***************************************************************************)
\* The row set _json_to_df makes of the provider's error payload.
ErrorFrame == Frame(<<"Information">>, <<[k \in {"Information"} |-> ERROR_TEXT]>>)

\* The cell is the provider's error text, whose capitals the scan must ignore.
IsErrorCell(x) == x = ERROR_TEXT

\* The partition is a readable file with the provider's error text in some cell.
HoldsErrorPayload(t, path) ==
    /\ Readable(t, path)
    /\ \E i \in 1..Len(t[path].rows) : \E c \in Range(t[path].cols) :
          IsErrorCell(t[path].rows[i][c])

\* C11: when the provider answers a unit with its "invalid api call" payload, the
\* run stores that payload unchanged as the rows of the unit's partition
\* <endpoint>/<ticker>, for a periodized endpoint as for any other, and the scan of
\* the raw tree keeps that partition.
C11_ErrorPayloadStored ==
    (ev.kind = "written" /\ \E i \in 1..Len(df.rows) : \E c \in Range(df.cols) :
                               IsErrorCell(df.rows[i][c]))
    => /\ df = ErrorFrame
       /\ tree[out_path(UnitAt(ev.idx))] = ToParquet(ErrorFrame)
       /\ \E i \in 1..Len(FailingFiles(tree)) :
             FailingFiles(tree)[i] = out_path(UnitAt(ev.idx))

\* The error payload of a periodized unit has just been stored, and the partition of
\* a non-periodized unit holds one too.
C11_Witness ==
    /\ ev.kind = "written"
    /\ periodized(UnitAt(ev.idx))
    /\ df = ErrorFrame
    /\ HoldsErrorPayload(tree, out_path(UnitAt(ev.idx)))
    /\ \E p \in DOMAIN tree : p[1] = "COMPANY_OVERVIEW" /\ HoldsErrorPayload(tree, p)

\* The raw partitions and the rows of the company_overview table that hold the
\* provider's error text in some cell.
ErrorPartitions == {p \in DOMAIN tree : HoldsErrorPayload(tree, p)}

ErrorTableRows ==
    {i \in 1..Len(final["company_overview"].rows) :
        \E c \in Range(final["company_overview"].cols) :
           IsErrorCell(final["company_overview"].rows[i][c])}

\* C12: a raw partition, or a row of the company_overview table, is classified as
\* a failure exactly when one of its cells holds the text "invalid api call" in any
\* capitalisation, whatever the column: export_all_failures writes one record per
\* such partition, with its ticker, endpoint and path, and no other record, and
\* export_company_overview_failures one record per such row; with no such
\* partition or row nothing is written.
C12_FailureClassification ==
    [][ /\ ev'.kind = "export_all" =>
              IF ErrorPartitions = {} THEN failures' = failures
              ELSE LET rows == failures'["failures_all"].rows
                   IN /\ failures'["failures_all"].st = "file"
                      /\ Len(rows) = Cardinality(ErrorPartitions)
                      /\ \A p \in ErrorPartitions :
                            \E i \in 1..Len(rows) : /\ rows[i].path = p
                                                    /\ rows[i].ticker = p[Len(p)]
                                                    /\ rows[i].function = p[1]
        /\ (ev'.kind = "export_company_overview" /\ final["company_overview"].st = "file") =>
              IF ErrorTableRows = {} THEN failures' = failures
              ELSE LET rows == failures'["company_overview_failures"].rows
                   IN /\ failures'["company_overview_failures"].st = "file"
                      /\ Len(rows) = Cardinality(ErrorTableRows)
                      /\ \A i \in ErrorTableRows :
                            \E j \in 1..Len(rows) :
                               rows[j].ticker = final["company_overview"].rows[i]["ticker"]
      ]_vars

\* export_all_failures has just scanned a tree with a partition that holds the
\* error text and a readable partition with rows that does not, and a failing row
\* of the company_overview table has been exported.
C12_Witness ==
    /\ ev.kind = "export_all"
    /\ failures["failures_all"].st = "file"
    /\ failures["company_overview_failures"].st = "file"
    /\ ErrorPartitions # {}
    /\ \E p \in DOMAIN tree : /\ Readable(tree, p)
                              /\ Len(tree[p].rows) > 0
                              /\ ~HoldsErrorPayload(tree, p)
    /\ ErrorTableRows # {}

\* The endpoint of the pair a record of the worklist stands for.
EndpointOfRecord(w, r) ==
    IF w.name = "company_overview_failures" THEN "COMPANY_OVERVIEW" ELSE r.function

\* The partitions of the pair a record stands for, and those its replay writes.
PartitionsOfRecord(w, r) ==
    {p \in DOMAIN tree : p[Len(p)] = r.ticker /\ p[1] \in {EndpointOfRecord(w, r), r.function}}

\* C13: after refetch_failures has replayed a record and the provider answered
\* with a payload that is no error, no raw partition of the record's (endpoint,
\* ticker) pair holds the provider's error payload.
C13_ReplayReplacesError ==
    (ev.kind = "refetched" /\ ~\E i \in 1..Len(df.rows) : \E c \in Range(df.cols) :
                                  IsErrorCell(df.rows[i][c]))
    => \A p \in DOMAIN tree :
          (p[1] = EndpointOfRecord(worklist, worklist.rows[ev.idx])
           /\ p[Len(p)] = worklist.rows[ev.idx].ticker)
          => ~HoldsErrorPayload(tree, p)

\* A row without its period_type column.
WithoutPeriodType(row) == [k \in DOMAIN row \ {"period_type"} |-> row[k]]

\* C14: after a record of a periodized endpoint has been replayed without an
\* exception, no partition <endpoint>/<ticker> exists and every re-fetched row is
\* held in a partition <endpoint>/<period>/<ticker>.
C14_PeriodizedReplay ==
    (ev.kind = "refetched" /\ worklist.rows[ev.idx].function \in PERIODIZED)
    => LET r == worklist.rows[ev.idx]
       IN /\ ~Exists(tree, SinglePath(r.function, r.ticker))
          /\ \A i \in 1..Len(df.rows) :
                \E period \in Range(PERIODS) :
                   /\ Readable(tree, PeriodPath(r.function, period, r.ticker))
                   /\ \E j \in 1..Len(tree[PeriodPath(r.function, period, r.ticker)].rows) :
                         tree[PeriodPath(r.function, period, r.ticker)].rows[j]
                            = WithoutPeriodType(df.rows[i])

\* C15: when the replay of one record fails, in the provider call, the flattening
\* or a write, refetch_failures goes on with the next record of the worklist and
\* the partitions of the failed record are as they were before its replay.
C15_ReplayFailureIsolated ==
    [][ (AtRecord /\ ev'.kind = "refetch_failed")
        => /\ rpc' = "running"
           /\ ridx' = ridx + 1
           /\ \A p \in PartitionsOfRecord(worklist, Record) : tree'[p] = tree[p]
      ]_vars

(***************************************************************************)
(* Properties of the flattening of labeled pairs.                          *)
(***************************************************************************)
\* The elements of the list a payload holds under a key, none when it has no such key.
ItemsOf(payload, key) == IF HasKey(payload, key) THEN Get(payload, key).items ELSE <<>>

\* Row i of the frame is element j of the list, labeled with the period.
RowIs(frame, i, items, j, period) ==
    /\ HasCol(frame, "period_type")
    /\ frame.rows[i]["period_type"] = period
    /\ \A k \in DOMAIN items[j] : frame.rows[i][k] = items[j][k]

C22_LaterWriteOverwrites ==
    [][ \A p \in PROCS :
          (procs[p].pc = "write" /\ ev'.kind = "race_write" /\ ev'.found = <<p>>)
          => tree'[PendingWrite(p).path] = ToParquet(PendingWrite(p).frame)
      ]_vars

\* Both runs found the partition of the same unit absent, both called the provider
\* for it and both wrote it: the partition holds the rows of the run that wrote
\* last, which differ from those the other run wrote.
C22_Witness ==
    /\ ev.kind = "race_write"
    /\ ~periodized(UnitAt(ev.idx))
    /\ \A p \in PROCS : /\ procs[p].pc = "check"
                        /\ procs[p].idx = ev.idx + 1
                        /\ procs[p].saw = <<"absent">>
    /\ procs["first"].d # procs["second"].d
    /\ tree[out_path(UnitAt(ev.idx))] = ToParquet(procs[ev.found[1]].d)

PairPaths(endpoint, ticker) ==
    {SinglePath(endpoint, ticker)} \cup {PeriodPath(endpoint, p, ticker) : p \in Range(PERIODS)}

\* The paths _write_split_by_period writes for the row set d.
WrittenPaths(d, endpoint, ticker) == {w.path : w \in Range(SplitWrites(d, endpoint, ticker))}

UnitOfRecord(w, r) ==
    UnitAt(CHOOSE i \in 1..NumUnits : /\ UnitAt(i).endpoint = EndpointOfRecord(w, r)
                                      /\ UnitAt(i).ticker = r.ticker)

\* The row sets a replayed call can produce for a record.
ReplayFrames(r) ==
    {_json_to_df(payload) : payload \in JsonPayloads(REST_FUNCTION_MAP(r.function), r.ticker)}

\* C25: for every record of the worklist, the request refetch_failures issues is the
\* request run_ingestion issues for the unit of the record (same provider function,
\* same parameters: symbol, keywords or none), and its result is written to the
\* partition paths run_ingestion writes it to.
C25_ReplaySameRequest ==
    AtRecord
    => /\ ReplayRequest(Record) = RunRequest(UnitOfRecord(worklist, Record))
       /\ \A d \in ReplayFrames(Record) :
             {w.path : w \in Range(RefetchWrites(Record.function, Record.ticker, d))}
             = {w.path : w \in Range(UnitWrites(UnitOfRecord(worklist, Record), d))}

(***************************************************************************)
(* The scans against the tables of the transform.                          *)
(***************************************************************************)
\* A raw partition under one of the endpoint directories holds rows.
HoldsPartition(endpoints) ==
    \E p \in DOMAIN tree : /\ EndpointOf(p) \in endpoints
                           /\ Readable(tree, p)
                           /\ ~IsEmpty(ReadParquet(tree, p))

\* C26: after transform_raw_to_final has run to its end on a raw tree that holds
\* fundamentals and company-overview partitions, the table export_fundamental_failures
\* reads and the table export_company_overview_failures reads are both in the
\* domain-table directory.
C26_ScannedTablesExist ==
    (tstatus = "ok" /\ HoldsPartition(FUNDAMENTALS_ENDPOINTS)
                    /\ HoldsPartition({"COMPANY_OVERVIEW"}))
    => \A scan \in {"export_fundamental_failures", "export_company_overview_failures"} :
          TableExists(final, ScannedTable(scan))
====
